---- MODULE Spec2Model ----
(***************************************************************************)
(* MCP Gateway: the upstream session manager (Gateway), the OAuthManager's *)
(* provider table and the downstream proxy's list_changed fan-out.         *)
(*                                                                         *)
(* One action is one run of JavaScript between two real suspension points  *)
(* (an await on network, pipe or child-process I/O) or one callback the    *)
(* event loop delivers (a timer, transport.onclose, transport.onerror).    *)
(* An async operation suspended at such an await is a record in `tasks`.   *)
(***************************************************************************)
EXTENDS Integers, Sequences, FiniteSets, TLC

\* ---------------------------------------------------------------- bounds

MaxConns == 2      \* transport objects of one session that exist at a time
MaxTimers == 2     \* pending reconnect timers of one session
MaxTasks == 2      \* gateway operations suspended at an await at a time
MaxCalls == 1      \* requests (API calls, the shutdown signal) made to the running gateway
MaxCloses == 6     \* upstream closes counted in the flaky-upstream scenario

\* ------------------------------------------------------- program constants

MAX_RECONNECT_ATTEMPTS == 5
BASE_RECONNECT_DELAY_MS == 2000
MAX_RECONNECT_DELAY_MS == 30000

\* ------------------------------------------------------------------ sets

Ids == {"s1"}
DS == {"d1"}
ConnIds == 1..MaxConns
Jitters == {0, 999}          \* Math.random() * 1000, in [0, 1000)

ConnectionStatus ==
  {"disconnected", "connecting", "connected", "error", "awaiting_oauth"}

\* tools / resources / prompts an upstream reports
UpTools == {"t1"}
UpResources == {"r1"}
UpPrompts == {"p1"}

\* messages of the errors client.connect can reject with
ErrMsgs == {"Unauthorized", "HTTP 401", "REDIRECT", "ECONNREFUSED", "Connection closed"}

\* ---------------------------------------------------------------- config

AuthNone == [mode |-> "none", clientId |-> "-"]
AuthOAuthA == [mode |-> "oauth", clientId |-> "A"]
\* RemoteServerConfig.auth is absent
AuthUnset == [mode |-> "unset", clientId |-> "-"]

\* RemoteServerConfig.oauth, the legacy field: absent or disabled, and enabled
NoLegacy == [enabled |-> FALSE, clientId |-> "-"]
LegacyA == [enabled |-> TRUE, clientId |-> "A"]

\* target: the command (stdio) or the url (remote), "x0" or "x1"
NoConfig ==
  [transport |-> "none", enabled |-> FALSE, target |-> "x0", auth |-> AuthNone,
   oauth |-> NoLegacy]

\* the OAuth callback scenario: OAuth through `auth`, or through legacy `oauth`
OAuthConfigs ==
  {[transport |-> "streamable-http", enabled |-> TRUE, target |-> "x0",
    auth |-> AuthOAuthA, oauth |-> NoLegacy],
   [transport |-> "streamable-http", enabled |-> TRUE, target |-> "x0",
    auth |-> AuthUnset, oauth |-> LegacyA]}

\* the configs a caller registers
RegConfigs ==
  {[transport |-> "stdio", enabled |-> e, target |-> "x0", auth |-> AuthNone,
    oauth |-> NoLegacy] : e \in BOOLEAN}
  \cup
  {[transport |-> "streamable-http", enabled |-> e, target |-> "x0", auth |-> a,
    oauth |-> NoLegacy] : e \in BOOLEAN, a \in {AuthNone, AuthOAuthA}}

legacyOAuthToAuthConfig(oauth) ==
  IF ~oauth.enabled THEN AuthNone ELSE [mode |-> "oauth", clientId |-> oauth.clientId]

\* the new auth field takes precedence over the legacy oauth field
getEffectiveAuthConfig(config) ==
  IF config.auth # AuthUnset THEN config.auth ELSE legacyOAuthToAuthConfig(config.oauth)

requiresOAuthProvider(auth) == auth.mode = "oauth"

NoProvider == [mode |-> "absent", clientId |-> "-"]

NoUpdate == [id |-> "-", auth |-> AuthNone, prov |-> NoProvider]

\* no server:added event: id, whether the Store holds the config, the session's
\* status and whether it has a transport
NoAdded == [id |-> "-", stored |-> FALSE, status |-> "-", client |-> 0]

NoBackoff == [attempts |-> 0, jitter |-> 0, delay |-> 0]

\* the patches a caller sends to updateServer
Patches ==
  {[enabled |-> TRUE], [enabled |-> FALSE], [target |-> "x1"],
   [auth |-> AuthNone], [auth |-> AuthOAuthA]}

\* ------------------------------------------------------- managed server

createManagedServer(config) ==
  [config |-> config, client |-> 0, status |-> "disconnected", error |-> "none",
   tools |-> {}, resources |-> {}, prompts |-> {},
   reconnectTimer |-> FALSE, reconnectAttempts |-> 0]

Absent == createManagedServer(NoConfig)

FreeConn == [st |-> "free", en |-> FALSE]
NoConns == [c \in ConnIds |-> FreeConn]

NoReply == [sent |-> FALSE, ups |-> {}]

Idle == [id |-> "-", pc |-> "idle", conn |-> 0, k |-> "-", en |-> FALSE]

\* Store.data.oauthState[id]: whether tokens and a PKCE code verifier are stored
NoOAuthState == [tokens |-> FALSE, codeVerifier |-> FALSE]

\* Store: the canonical file and the sibling temp file of flush
filePath == "gateway-store.json"
\* a flush without the temp file: writeFileSync(this.filePath, ...)
InPlace == filePath
tmpPath == "gateway-store.json.tmp"
Paths == {filePath, tmpPath}

\* EMPTY_STORE.servers
EMPTY_STORE == <<>>

\* what a path of the file system holds: nothing, a file whose write has
\* not finished, or the complete text JSON.stringify(data) of a Store state
NoFile == [kind |-> "absent", doc |-> <<>>]
Truncated == [kind |-> "partial", doc |-> <<>>]
stringify(d) == [kind |-> "json", doc |-> d]

\* no reply of the proxy to a downstream request
NoAnswer == [d |-> "-", type |-> "-", kind |-> "none", cause |-> "-", logId |-> 0]

Flushless == [pc |-> "idle", by |-> "-"]
NotFlushed == [by |-> "-", error |-> FALSE, threw |-> FALSE]

VARIABLES
  lifecycle,          \* "constructed" | "initializing" | "running" | "stopping" | "stopped"
  servers,            \* keys of Gateway.servers
  managed,            \* Gateway.servers: id -> ManagedServer
  conns,              \* the transport/client objects created for each session
  timers,             \* pending setTimeout callbacks of scheduleReconnect, per id
  providers,          \* OAuthManager.providers: id -> the oauthConfig it was built from
  shutdownRequested,
  tasks,              \* async operations suspended at an await
  clients,            \* downstream clients whose initialize request was answered
  sessions,           \* mcp-proxy: the clients with an entry in the session table
  dsReply,            \* the tools/list reply a client got in the last step, by upstream
  dsFresh,            \* upstreams that became connected with no list_changed sent since
  dsGone,             \* upstreams that left connected with no list_changed sent since
  seenUpdated,        \* what the observers of a server:updated event of the last step saw
  lastRet,            \* how a connectServer call that returned in the last step ended
  lastDelay,          \* the delay of a timer scheduleReconnect set in the last step (0: none)
  calls,              \* requests made to the running gateway so far
  retired,            \* ids of removed servers (an id is a fresh UUID, never reused)
  oauthState,         \* Store.data.oauthState: id -> what is persisted for the OAuth flow
  savedTokens,        \* a saveTokens call of the last step: "none", or whether the code
                      \* verifier was "stored" or "cleared" when it returned
  registry,           \* name registry: the registered servers in insertion order, each
                      \* with its name and the tools its connected session reports
  reply,              \* name registry: the reply to the request of the last step
  data,               \* Store.data.servers: the stored configs (id, name, transport)
  dirty,              \* Store.dirty
  writeTimer,         \* Store.writeTimer is set: the 200 ms timer is pending
  disk,               \* the file system: what filePath and tmpPath hold
  flushing,           \* the system call a running flush() is at, and who called flush
  faults,             \* file system errors so far
  flushed,            \* a flush()/close() that returned in the last step: its caller,
                      \* whether a persistence error happened and whether it threw
  logs,               \* RequestLogStore.logs: entries (id, type, status), newest first
  pendingRequests,    \* keys of RequestLogStore.pendingRequests
  logIds,             \* entry ids issued so far (randomUUID: an id is never reused)
  upcalls,            \* upstream requests of the proxy handlers awaiting their reply
  answer,             \* the last reply of a tools/call, resources/read or prompts/get
  storeServers,       \* Store.data.servers as the Gateway uses it: id -> config
  memVerifier,        \* GatewayOAuthProvider._codeVerifier of the cached provider is set
  removedEvents,      \* server:removed events emitted so far, per id
  seenAdded,          \* what the observers of a server:added event of the last step saw
  backoff,            \* backoff scenario: the inputs and the delay of the last computation
  closes              \* flaky-upstream scenario: closes the upstream has made

gwVars ==
  <<lifecycle, servers, managed, conns, timers, providers, shutdownRequested, tasks, retired,
    oauthState, storeServers, memVerifier, removedEvents>>
proxyVars == <<clients, sessions, dsFresh, dsGone>>
obsVars == <<seenUpdated, lastRet, lastDelay, dsReply, savedTokens, seenAdded>>
nameVars == <<registry, reply>>
storeVars == <<data, dirty, writeTimer, disk, flushing, faults, flushed>>
logVars == <<logs, pendingRequests, logIds>>
callVars == <<logVars, upcalls, answer>>
auxVars == <<nameVars, storeVars, callVars, backoff>>
vars == <<gwVars, proxyVars, obsVars, auxVars, calls, closes>>

\* --------------------------------------------------------------- helpers

Min(a, b) == IF a <= b THEN a ELSE b

RECURSIVE Pow2(_)
Pow2(n) == IF n = 0 THEN 1 ELSE 2 * Pow2(n - 1)

\* a delay without the cap
UncappedDelay(attempts, jitter) == BASE_RECONNECT_DELAY_MS * Pow2(attempts) + jitter

\* scheduleReconnect's delay: Math.min(BASE * 2^attempts + jitter, MAX)
ReconnectDelay(attempts, jitter) ==
  Min(BASE_RECONNECT_DELAY_MS * Pow2(attempts) + jitter, MAX_RECONNECT_DELAY_MS)

\* connectRemoteServer's catch: msg.includes("Unauthorized") || "REDIRECT" || "401"
IsAuthRedirect(msg) == msg \in {"Unauthorized", "REDIRECT", "HTTP 401"}

NeverAuthRelated(msg) == FALSE

\* connectServer's catch: errorMsg.includes("Unauthorized") || errorMsg.includes("401")
IsAuthRelated(msg) == msg \in {"Unauthorized", "HTTP 401"}

\* mcp-proxy's gateway.on("event"): the events answered with list_changed
NotifiesListChanged(type) == type \in {"server:connected", "server:disconnected"}

\* ------------------------------------------------------------------ world
\* The part of the state one handler run reads and writes for one server id,
\* threaded through the operators below in the order of the code's statements.
\*   stored the config Store.data.servers holds for the id (NoConfig: none)
\*   memv   the cached provider's in-memory code verifier is set
\*   evs    events emitted so far in this run
\*   closed transports closed in this run (operations awaiting them reject)
\*   spawn  where the run suspends (Idle: it ran to completion)
\*   ok     FALSE when the run would exceed a bound of the model

World(id) ==
  [m |-> managed[id], conns |-> conns[id], timers |-> timers[id],
   prov |-> providers[id], present |-> id \in servers, shut |-> shutdownRequested,
   ost |-> oauthState[id], stored |-> storeServers[id], memv |-> memVerifier[id],
   evs |-> {}, closed |-> {}, spawn |-> Idle, ret |-> "none",
   upd |-> NoUpdate, added |-> NoAdded, delay |-> 0, saved |-> "none", ok |-> TRUE]

emitEvent(w, type) == [w EXCEPT !.evs = @ \cup {type}]

\* emitStatusEvent: getServerStatus(id) is undefined for an id not in the table
emitStatusEvent(w) == IF w.present THEN emitEvent(w, "server:status") ELSE w

setStatus(w, status, error) ==
  emitStatusEvent([w EXCEPT !.m.status = status, !.m.error = error])

\* a scheduleReconnect that does not look at config.enabled
scheduleUnlessShutDown(w, jitter) ==
  IF w.shut THEN w
  ELSE IF w.m.reconnectAttempts >= MAX_RECONNECT_ATTEMPTS THEN setStatus(w, "error", "maxed")
  ELSE IF w.timers >= MaxTimers THEN [w EXCEPT !.ok = FALSE]
  ELSE [w EXCEPT !.delay = ReconnectDelay(w.m.reconnectAttempts, jitter),
                 !.m.reconnectAttempts = @ + 1, !.m.reconnectTimer = TRUE,
                 !.timers = @ + 1]

scheduleReconnect(w, jitter) ==
  IF w.shut THEN w
  ELSE IF ~w.m.config.enabled THEN w
  ELSE IF w.m.reconnectAttempts >= MAX_RECONNECT_ATTEMPTS
    THEN setStatus(w, "error", "maxed")
  ELSE IF w.timers >= MaxTimers THEN [w EXCEPT !.ok = FALSE]
  ELSE [w EXCEPT !.delay = ReconnectDelay(w.m.reconnectAttempts, jitter),
                 !.m.reconnectAttempts = @ + 1,
                 !.m.reconnectTimer = TRUE,
                 !.timers = @ + 1]

\* clearTimeout(managed.reconnectTimer); managed.reconnectTimer = undefined
clearReconnectTimer(w) ==
  IF w.m.reconnectTimer
    THEN [w EXCEPT !.m.reconnectTimer = FALSE, !.timers = @ - 1]
    ELSE w

\* transport.onclose of connectLocalServer / connectRemoteServer; `en` is the
\* enabled flag of the config object the closure captured at connect time
onclose(w, en, jitter) ==
  IF w.m.status = "connected"
    THEN LET w1 == emitEvent(setStatus(w, "disconnected", "none"), "server:disconnected")
         IN IF ~w.shut /\ en THEN scheduleReconnect(w1, jitter) ELSE w1
    ELSE w

\* transport.onerror of connectLocalServer / connectRemoteServer
onerror(w) == setStatus(w, "error", "failed")

Alive(w, c) == c # 0 /\ w.conns[c].st \in {"opening", "open"}

\* a transport object stops: it stays as "dead" while managed.client/transport
\* still point at it, and is gone otherwise
kill(w, c) ==
  [w EXCEPT !.conns[c] = IF w.m.client = c THEN [@ EXCEPT !.st = "dead"] ELSE FreeConn,
            !.closed = @ \cup {c}]

\* managed.client = managed.transport = c (0: null)
setClient(w, c) ==
  LET old == w.m.client
  IN [w EXCEPT !.m.client = c,
               !.conns = IF old # 0 /\ old # c /\ @[old].st = "dead"
                           THEN [@ EXCEPT ![old] = FreeConn] ELSE @]

\* close() on the object managed.client/transport point at: the transport stops
\* and, when `fire`, its onclose callback runs before close() returns
closeCurrent(w, fire, jitter) ==
  LET c == w.m.client
  IN IF Alive(w, c)
       THEN LET en == w.conns[c].en
                w1 == kill(w, c)
            IN IF fire THEN onclose(w1, en, jitter) ELSE w1
       ELSE w

\* closeConnection after its awaits: close what managed.transport points at now,
\* then null the pointers and reset the lists
closeConnectionEnd(w, fire, jitter) ==
  LET w1 == closeCurrent(w, fire, jitter)
      w2 == setClient(w1, 0)
  IN [w2 EXCEPT !.m.tools = {}, !.m.resources = {}, !.m.prompts = {}]

FreeConns(w) == {c \in ConnIds : w.conns[c].st = "free"}
LowestFree(w) == CHOOSE c \in FreeConns(w) : \A d \in FreeConns(w) : c <= d

\* OAuthManager.getProvider: the cached provider, or a new one built from
\* oauthConfig, whose constructor reads the persisted code verifier
getProvider(w, oauthConfig) ==
  IF w.prov # NoProvider THEN w
  ELSE [w EXCEPT !.prov = oauthConfig, !.memv = w.ost.codeVerifier]

\* OAuthManager.removeProvider
removeProvider(w) == [w EXCEPT !.prov = NoProvider, !.memv = FALSE]

\* OAuthManager.replaceProvider
replaceProvider(w, oauthConfig) == getProvider(removeProvider(w), oauthConfig)

\* a connectServer that only returns early when connected
onlyConnected(w) == w.m.status = "connected"

\* connectServer's early returns: already connected, already connecting
alreadyConnected(w) == w.m.status \in {"connected", "connecting"}

\* connectServer up to its first await (client.connect of connectLocalServer /
\* connectRemoteServer); k tags the suspended operation
connectServer(w, k) ==
  IF ~w.present THEN [w EXCEPT !.ret = "notfound"]
  ELSE IF alreadyConnected(w) THEN [w EXCEPT !.ret = "ok"]
  ELSE IF FreeConns(w) = {} THEN [w EXCEPT !.ok = FALSE]
  ELSE
    LET w1 == setStatus(w, "connecting", "none")
        auth == getEffectiveAuthConfig(w1.m.config)
        w2 == IF w1.m.config.transport # "stdio" /\ requiresOAuthProvider(auth)
                THEN getProvider(w1, auth) ELSE w1
        c == LowestFree(w2)
        w3 == [w2 EXCEPT !.conns[c] = [st |-> "opening", en |-> w2.m.config.enabled]]
        w4 == setClient(w3, c)
    IN [w4 EXCEPT !.spawn = [id |-> "-", pc |-> "handshake", conn |-> c, k |-> k, en |-> FALSE]]

\* the tail of connectLocalServer / connectRemoteServer after discoverCapabilities
connected(w) ==
  LET w1 == setStatus(w, "connected", "none")
      w2 == [w1 EXCEPT !.m.reconnectAttempts = 0]
  IN [emitEvent(w2, "server:connected") EXCEPT !.ret = "ok"]

\* discoverCapabilities up to its first await: `const client = managed.client`
discoverCapabilities(w, k) ==
  IF w.m.client = 0
    THEN (IF k = "refresh" THEN emitStatusEvent(w) ELSE connected(w))
    ELSE [w EXCEPT !.spawn = [id |-> "-", pc |-> "listTools", conn |-> w.m.client,
                              k |-> k, en |-> FALSE]]

\* GatewayOAuthProvider.saveCodeVerifier
saveCodeVerifier(w) == [w EXCEPT !.memv = TRUE, !.ost.codeVerifier = TRUE]

\* client.connect rejected with `msg`: connectRemoteServer's catch, then
\* connectServer's catch.  "Unauthorized" is the error of a transport that has
\* sent the user to the authorization server through its authProvider, which
\* stored the PKCE code verifier on the way.
connectFailed(w, msg, jitter) ==
  LET redirected == /\ msg = "Unauthorized"
                    /\ w.m.config.transport # "stdio"
                    /\ w.prov # NoProvider
      w0 == [(IF redirected THEN saveCodeVerifier(w) ELSE w) EXCEPT !.ret = "ok"]
  IN IF w.m.config.transport # "stdio" /\ IsAuthRedirect(msg)
       THEN setStatus(w0, "awaiting_oauth", "none")
     ELSE IF IsAuthRelated(msg) \/ w.m.status = "awaiting_oauth"
       THEN (IF w.m.status # "awaiting_oauth"
               THEN setStatus(w0, "awaiting_oauth", "none") ELSE w0)
     ELSE scheduleReconnect(setStatus(w0, "error", "failed"), jitter)

\* disconnectServer after closeConnection
disconnected(w) ==
  emitEvent(setStatus(w, "disconnected", "none"), "server:disconnected")

\* disconnectServer up to the await inside closeConnection (client.close()); with
\* no client there is no I/O to wait for and it runs to its end
disconnectServer(w, k, en, fire, jitter) ==
  IF ~w.present THEN w
  ELSE
    LET w1 == [clearReconnectTimer(w) EXCEPT !.m.reconnectAttempts = 0]
    IN IF w1.m.client = 0
         THEN disconnected(closeConnectionEnd(w1, FALSE, jitter))
         ELSE [closeCurrent(w1, fire, jitter) EXCEPT
                 !.spawn = [id |-> "-", pc |-> "closing", conn |-> 0, k |-> k, en |-> en]]

\* the transport objects that outlive their session's entry in Gateway.servers:
\* those nobody closed
orphans(w) == [c \in ConnIds |-> IF Alive(w, c) THEN w.conns[c] ELSE FreeConn]

\* a Store.removeServer that leaves the stored config in place
store_keepServer(w) == w

\* Store.removeServer: an id it does not hold changes nothing; otherwise the
\* config goes, and the OAuth state persisted for the id with it
store_removeServer(w) ==
  IF w.stored = NoConfig THEN w
  ELSE [w EXCEPT !.stored = NoConfig, !.ost = NoOAuthState]

\* removeServer after its disconnect
removed(w) ==
  LET w1 == IF w.m.reconnectTimer THEN [w EXCEPT !.timers = @ - 1] ELSE w
      w2 == [w1 EXCEPT !.m = Absent, !.conns = orphans(w), !.present = FALSE]
  IN emitEvent(removeProvider(store_removeServer(w2)), "server:removed")

\* what follows the disconnectServer of a compound operation
afterDisconnect(w, k, en) ==
  CASE k = "reconnect" -> connectServer(w, "connect")
    [] k = "update" -> (IF en THEN connectServer(w, "connect") ELSE w)
    [] k \in {"remove", "removeAgain"} -> removed(w)
    [] OTHER -> w

\* disconnectServer, and what follows it when it ran to its end without suspending
disconnectThen(w, k, en, fire, jitter) ==
  LET w1 == disconnectServer(w, k, en, fire, jitter)
  IN IF w1.spawn.pc = "idle" THEN afterDisconnect(w1, k, en) ELSE w1

\* Store.updateServer's merge: {...existing, ...updates, transport: existing.transport}
applyUpdates(config, updates) ==
  [f \in DOMAIN config |->
     IF f \in DOMAIN updates /\ f # "transport" THEN updates[f] ELSE config[f]]

connectionSettingsChanged(prev, next) ==
  IF prev.transport # next.transport THEN TRUE
  ELSE IF prev.transport = "stdio" THEN prev.target # next.target
  ELSE prev.target # next.target \/ prev.auth # next.auth \/ prev.oauth # next.oauth

\* Gateway.updateServer from `const previousConfig` up to its first await, for
\* an id the Store holds
updateStored(w, id, updates, fire, jitter) ==
  LET previousConfig == w.m.config
      updatedConfig == applyUpdates(w.stored, updates)
      w1 == [w EXCEPT !.stored = updatedConfig, !.m.config = updatedConfig]
      \* emitEvent(server:updated) runs the observers here, before the provider
      \* table is touched
      w2 == [emitEvent(w1, "server:updated") EXCEPT
               !.upd = [id |-> id, auth |-> getEffectiveAuthConfig(updatedConfig),
                        prov |-> w1.prov]]
      authConfig == getEffectiveAuthConfig(updatedConfig)
      w3 == IF updatedConfig.transport # "stdio"
              THEN (IF requiresOAuthProvider(authConfig)
                      THEN replaceProvider(w2, authConfig) ELSE removeProvider(w2))
              ELSE w2
      needsReconnect == connectionSettingsChanged(previousConfig, updatedConfig)
  IN IF needsReconnect /\ w3.m.status \in {"connected", "connecting"}
       THEN disconnectThen(w3, "update", updatedConfig.enabled, fire, jitter)
     ELSE IF updatedConfig.enabled /\ ~previousConfig.enabled /\ w3.m.status = "disconnected"
       THEN connectServer(w3, "connect")
     ELSE IF ~updatedConfig.enabled /\ previousConfig.enabled
       THEN disconnectServer(w3, "disconnect", FALSE, fire, jitter)
     ELSE w3

\* Gateway.updateServer up to its first await; Store.updateServer throws for an
\* id it does not hold
updateServer(w, id, updates, fire, jitter) ==
  IF ~w.present THEN [w EXCEPT !.ret = "notfound"]
  ELSE IF w.stored = NoConfig THEN [w EXCEPT !.ret = "error"]
  ELSE updateStored(w, id, updates, fire, jitter)

\* a registerServer that creates the session and announces it before the Store
\* has accepted the config
registerThenPersist(w, id, config) ==
  LET w0 == [w EXCEPT !.m = createManagedServer(config), !.present = TRUE]
      w1 == [emitEvent(w0, "server:added") EXCEPT
               !.added = [id |-> id, stored |-> w0.stored = config,
                          status |-> w0.m.status, client |-> w0.m.client]]
  IN IF w.stored # NoConfig THEN [w1 EXCEPT !.ret = "error"]
     ELSE IF config.enabled THEN connectServer([w1 EXCEPT !.stored = config], "connect")
     ELSE [w1 EXCEPT !.stored = config]

\* Gateway.registerServer up to its first await.  Store.addServer throws for an
\* id it holds already; emitEvent(server:added) runs the observers before
\* connectServer is called
registerServer(w, id, config) ==
  IF w.stored # NoConfig THEN [w EXCEPT !.ret = "error"]
  ELSE
    LET w0 == [w EXCEPT !.stored = config, !.m = createManagedServer(config),
                        !.present = TRUE]
        w1 == [emitEvent(w0, "server:added") EXCEPT
                 !.added = [id |-> id, stored |-> w0.stored = config,
                            status |-> w0.m.status, client |-> w0.m.client]]
    IN IF config.enabled THEN connectServer(w1, "connect") ELSE w1

\* Gateway.onOAuthComplete up to the await inside closeConnection
onOAuthComplete(w, fire, jitter) ==
  IF ~w.present THEN w
  ELSE IF w.m.status \in {"awaiting_oauth", "disconnected", "error"}
    THEN IF w.m.client = 0
           THEN connectServer(
                  setStatus(closeConnectionEnd(w, FALSE, jitter), "disconnected", "none"),
                  "connect")
           ELSE [closeCurrent(w, fire, jitter) EXCEPT
                   !.spawn = [id |-> "-", pc |-> "closing", conn |-> 0, k |-> "oauth",
                              en |-> FALSE]]
    ELSE w

\* ----------------------------------------------------------------- commit

Worlds == [id \in Ids |-> World(id)]

\* the operations that go on to write the Store or to emit events when their
\* session has left Gateway.servers: removeServer and the OAuth callback
Detached == {"remove", "removeAgain", "callback"}

\* the suspended operations after a run: the stepping one (tk, Idle: none) is
\* gone, the other operations of a removed session have no session left to act
\* on, an operation awaiting a transport closed in this run will reject
TasksAfter(ws, tk) ==
  {IF o.conn \in ws[o.id].closed THEN [o EXCEPT !.conn = 0] ELSE o :
     o \in {x \in tasks \ {tk} : ws[x.id].present \/ x.k \in Detached}}

\* Transport objects have no identity beyond who points at them: the states are
\* kept in the form where the object managed.client points at, or else the only
\* live object, is number 1.  Renumber(w) is the renaming that achieves it.
Renumber(w) ==
  LET swap == \/ w.m.client = 2
              \/ w.m.client = 0 /\ w.conns[1].st = "free" /\ w.conns[2].st # "free"
  IN [c \in 0..MaxConns |-> IF ~swap \/ c \notin {1, 2} THEN c ELSE 3 - c]

Commit(ws, tk, id) ==
  LET spawned == {[ws[u].spawn EXCEPT !.id = u] : u \in {x \in Ids : ws[x].spawn.pc # "idle"}}
      ren == [u \in Ids |-> Renumber(ws[u])]
      after == {[o EXCEPT !.conn = ren[o.id][@]] : o \in TasksAfter(ws, tk) \cup spawned}
      \* the proxy's gateway.on("event") listener runs inside emitEvent
      published == \E u \in Ids : \E e \in ws[u].evs : NotifiesListChanged(e)
      notified(d) == published /\ d \in sessions
      wasConn(u) == u \in servers /\ managed[u].status = "connected"
      isConn(u) == ws[u].present /\ ws[u].m.status = "connected"
  IN /\ \A u \in Ids : ws[u].ok
     /\ Cardinality(after) <= MaxTasks
     /\ tasks' = after
     /\ servers' = {u \in Ids : ws[u].present}
     /\ retired' = retired \cup {u \in servers : ~ws[u].present}
     /\ managed' = [u \in Ids |-> [ws[u].m EXCEPT !.client = ren[u][@]]]
     /\ conns' = [u \in Ids |-> [c \in ConnIds |-> ws[u].conns[ren[u][c]]]]
     /\ timers' = [u \in Ids |-> ws[u].timers]
     /\ providers' = [u \in Ids |-> ws[u].prov]
     /\ seenUpdated' = ws[id].upd
     /\ lastRet' = ws[id].ret
     /\ lastDelay' = ws[id].delay
     /\ oauthState' = [u \in Ids |-> ws[u].ost]
     /\ storeServers' = [u \in Ids |-> ws[u].stored]
     /\ memVerifier' = [u \in Ids |-> ws[u].memv]
     /\ removedEvents' = [u \in Ids |->
                            removedEvents[u] + Cardinality(ws[u].evs \cap {"server:removed"})]
     /\ seenAdded' = ws[id].added
     /\ savedTokens' = ws[id].saved
     /\ dsReply' = [d \in DS |-> NoReply]
     /\ dsFresh' = [d \in DS |->
                      IF d \notin clients \/ notified(d) THEN {}
                      ELSE dsFresh[d] \cup {u \in Ids : ~wasConn(u) /\ isConn(u)}]
     /\ dsGone' = [d \in DS |->
                     IF d \notin clients \/ notified(d) THEN {}
                     ELSE dsGone[d] \cup
                          {u \in Ids : wasConn(u) /\ managed[u].tools # {} /\ ~isConn(u)}]
     /\ UNCHANGED <<clients, sessions, auxVars>>

\* a run that touches one session; the run is evaluated once and then committed
Step(id, w, t) == \E v \in {w} : Commit([Worlds EXCEPT ![id] = v], t, id)


\* ------------------------------------------------------------------- Init

\* what store.getAllServers() returns to initialize(): a config or none for
\* each id
StoredConfigs == [Ids -> RegConfigs \cup {NoConfig}]

\* what the Store may have loaded from its file
LoadedConfigs == [Ids -> RegConfigs \cup OAuthConfigs \cup {NoConfig}]

Init ==
  /\ lifecycle = "constructed"
  /\ servers = {}
  /\ managed = [id \in Ids |-> Absent]
  /\ conns = [id \in Ids |-> NoConns]
  /\ timers = [id \in Ids |-> 0]
  /\ providers = [id \in Ids |-> NoProvider]
  /\ shutdownRequested = FALSE
  /\ tasks = {}
  /\ retired = {}
  /\ oauthState = [id \in Ids |-> NoOAuthState]
  /\ savedTokens = "none"
  /\ storeServers \in LoadedConfigs
  /\ memVerifier = [id \in Ids |-> FALSE]
  /\ removedEvents = [id \in Ids |-> 0]
  /\ seenAdded = NoAdded
  /\ backoff = NoBackoff
  /\ registry = <<>>
  /\ reply = [kind |-> "none"]
  /\ data = EMPTY_STORE
  /\ dirty = FALSE
  /\ writeTimer = FALSE
  /\ disk = [p \in Paths |-> NoFile]
  /\ flushing = Flushless
  /\ faults = 0
  /\ flushed = NotFlushed
  /\ logs = <<>>
  /\ pendingRequests = {}
  /\ logIds = 0
  /\ upcalls = {}
  /\ answer = NoAnswer
  /\ clients = {}
  /\ sessions = {}
  /\ dsReply = [d \in DS |-> NoReply]
  /\ dsFresh = [d \in DS |-> {}]
  /\ dsGone = [d \in DS |-> {}]
  /\ seenUpdated = NoUpdate
  /\ lastRet = "none"
  /\ lastDelay = 0
  /\ calls = 0
  /\ closes = [id \in Ids |-> 0]

Frame == UNCHANGED <<lifecycle, shutdownRequested, calls, closes>>

\* a request reaches the running gateway
CanCall == lifecycle = "running" /\ calls < MaxCalls

\* one more request than CanCall admits reaches the running gateway
OneMore == lifecycle = "running" /\ calls = MaxCalls

Call ==
  /\ calls' = calls + 1
  /\ UNCHANGED <<lifecycle, shutdownRequested, closes>>

\* ------------------------------------------------------- Gateway lifecycle

\* Gateway.initialize up to `await Promise.allSettled`; stored is what
\* store.getAllServers() returns
Initialize(stored) ==
  /\ lifecycle = "constructed"
  /\ storeServers = stored
  /\ LET ws == [id \in Ids |->
                  IF stored[id] = NoConfig THEN World(id)
                  ELSE LET w == [World(id) EXCEPT !.m = createManagedServer(stored[id]),
                                                  !.present = TRUE]
                       IN IF stored[id].enabled THEN connectServer(w, "init") ELSE w]
     IN Commit(ws, Idle, CHOOSE id \in Ids : TRUE)
  /\ lifecycle' = "initializing"
  /\ UNCHANGED <<shutdownRequested, calls, closes>>

\* Promise.allSettled(connectPromises) resolves; index.ts then starts listening
InitializeDone ==
  /\ lifecycle = "initializing"
  /\ \A o \in tasks : o.k # "init"
  /\ lifecycle' = "running"
  /\ seenUpdated' = NoUpdate
  /\ lastRet' = "none"
  /\ lastDelay' = 0
  /\ savedTokens' = "none"
  /\ UNCHANGED <<servers, managed, conns, timers, providers, shutdownRequested, tasks,
                 retired, oauthState, storeServers, memVerifier, removedEvents, proxyVars,
                 auxVars, calls, closes>>
  /\ seenAdded' = NoAdded
  /\ dsReply' = [d \in DS |-> NoReply]

\* Gateway.shutdown up to `await Promise.allSettled`
shutdown(fire, jitter) ==
  /\ LET ws == [id \in Ids |->
                  IF id \notin servers THEN World(id)
                  ELSE LET w == clearReconnectTimer([World(id) EXCEPT !.shut = TRUE])
                       IN IF w.m.status \in {"connected", "connecting"}
                            THEN disconnectServer(w, "shutdown", FALSE, fire, jitter)
                            ELSE w]
     IN Commit(ws, Idle, CHOOSE id \in Ids : TRUE)
  /\ shutdownRequested' = TRUE
  /\ lifecycle' = "stopping"
  /\ calls' = calls + 1
  /\ UNCHANGED closes

\* the shutdown signal reaches the running gateway
Shutdown(fire, jitter) == CanCall /\ shutdown(fire, jitter)

\* the shutdown signal comes after the last request CanCall admits
ShutdownLater(fire, jitter) == OneMore /\ shutdown(fire, jitter)

\* Gateway.shutdown after the disconnects settled: this.servers.clear()
ShutdownDone ==
  /\ lifecycle = "stopping"
  /\ \A o \in tasks : o.k # "shutdown"
  /\ LET ws == [id \in Ids |->
                  [World(id) EXCEPT !.m = Absent, !.conns = orphans(World(id)),
                                    !.present = FALSE]]
     IN Commit(ws, Idle, CHOOSE id \in Ids : TRUE)
  /\ lifecycle' = "stopped"
  /\ UNCHANGED <<shutdownRequested, calls, closes>>

\* ------------------------------------------------------ Gateway operations

RegisterServer(id, config) ==
  /\ CanCall
  /\ id \notin retired
  /\ Step(id, registerServer(World(id), id, config), Idle)
  /\ Call

UpdateServer(id, updates, fire, jitter) ==
  /\ CanCall
  /\ id \in servers
  /\ "auth" \in DOMAIN updates => managed[id].config.transport # "stdio"
  /\ Step(id, updateServer(World(id), id, updates, fire, jitter), Idle)
  /\ Call

\* an updateServer that comes after the last request CanCall admits
UpdateServerLater(id, updates, fire, jitter) ==
  /\ OneMore
  /\ id \in servers
  /\ "auth" \in DOMAIN updates => managed[id].config.transport # "stdio"
  /\ Step(id, updateServer(World(id), id, updates, fire, jitter), Idle)
  /\ Call

\* Gateway.removeServer up to its first await
removeServer(w, k, fire, jitter) ==
  IF ~w.present THEN [w EXCEPT !.ret = "notfound"]
  ELSE IF w.m.status \in {"connected", "connecting"}
    THEN disconnectThen(w, k, FALSE, fire, jitter)
  ELSE removed(w)

RemoveServer(id, fire, jitter) ==
  /\ CanCall
  /\ id \in servers
  /\ Step(id, removeServer(World(id), "remove", fire, jitter), Idle)
  /\ Call

\* one more removeServer(id) than CanCall admits: it arrives while the request
\* before it is still suspended, or after it has returned
RemoveServerAgain(id, fire, jitter) ==
  /\ OneMore
  /\ id \in servers \cup retired
  /\ Step(id, removeServer(World(id), "removeAgain", fire, jitter), Idle)
  /\ Call

ConnectServer(id) ==
  /\ CanCall
  /\ id \in servers
  /\ Step(id, connectServer(World(id), "connect"), Idle)
  /\ Call

DisconnectServer(id, fire, jitter) ==
  /\ CanCall
  /\ id \in servers
  /\ Step(id, disconnectServer(World(id), "disconnect", FALSE, fire, jitter), Idle)
  /\ Call

ReconnectServer(id, fire, jitter) ==
  /\ CanCall
  /\ id \in servers
  /\ Step(id, disconnectThen([World(id) EXCEPT !.m.reconnectAttempts = 0],
                             "reconnect", FALSE, fire, jitter), Idle)
  /\ Call

RefreshCapabilities(id) ==
  /\ CanCall
  /\ id \in servers
  /\ managed[id].status = "connected" /\ managed[id].client # 0
  /\ Step(id, discoverCapabilities(World(id), "refresh"), Idle)
  /\ Call

OnOAuthComplete(id, fire, jitter) ==
  /\ CanCall
  /\ id \in servers
  /\ Step(id, onOAuthComplete(World(id), fire, jitter), Idle)
  /\ Call

\* GatewayOAuthProvider.saveTokens, called by the SDK's auth() once the
\* authorization server has exchanged the code; `saved` records what the Store
\* holds for the code verifier when it returns
saveTokens(w) ==
  [w EXCEPT !.ost.tokens = TRUE,
            !.saved = IF w.ost.codeVerifier THEN "stored" ELSE "cleared"]

\* Store.clearCodeVerifier
clearCodeVerifier(w) == [w EXCEPT !.ost.codeVerifier = FALSE]

\* OAuthManager.handleCallback up to `await mcpAuth(provider, ...)`
handleCallback(w, oauthConfig) ==
  [getProvider(w, legacyOAuthToAuthConfig(oauthConfig)) EXCEPT
     !.spawn = [id |-> "-", pc |-> "exchange", conn |-> 0, k |-> "callback", en |-> FALSE]]

\* GET /oauth/callback/:serverId?code=... up to the await inside handleCallback;
\* a request it refuses is answered with an error redirect
oauthCallback(w) ==
  IF ~w.present THEN w
  ELSE IF w.m.config.transport = "stdio" THEN w
  ELSE IF ~w.m.config.oauth.enabled THEN w
  ELSE handleCallback(w, w.m.config.oauth)

OAuthCallback(id) ==
  /\ CanCall
  /\ Step(id, oauthCallback(World(id)), Idle)
  /\ Call

\* --------------------------------------------- resumptions of suspended runs

\* mcpAuth settles: the authorization server accepted the code (auth() saved the
\* tokens and returned "AUTHORIZED") or refused it (auth() threw); on success
\* handleCallback clears the verifier and the route calls gateway.onOAuthComplete
ExchangeDone(tk, accepted, fire, jitter) ==
  /\ tk.pc = "exchange"
  /\ LET w == World(tk.id)
     IN Step(tk.id,
             IF accepted
               THEN onOAuthComplete(clearCodeVerifier(saveTokens(w)), fire, jitter)
               ELSE w, tk)
  /\ Frame

\* client.connect(transport) resolves
HandshakeOk(tk) ==
  /\ tk.pc = "handshake"
  /\ tk.conn # 0 /\ conns[tk.id][tk.conn].st = "opening"
  /\ LET w == [World(tk.id) EXCEPT !.conns[tk.conn].st = "open"]
     IN Step(tk.id, discoverCapabilities(w, tk.k), tk)
  /\ Frame

\* client.connect(transport) rejects with msg
HandshakeFail(tk, msg, jitter) ==
  /\ tk.pc = "handshake"
  /\ tk.conn = 0 => msg = "Connection closed"
  /\ LET w == World(tk.id)
         w1 == IF Alive(w, tk.conn) THEN kill(w, tk.conn) ELSE w
     IN Step(tk.id, connectFailed(w1, msg, jitter), tk)
  /\ Frame

ClientUsable(tk) == tk.conn # 0 /\ conns[tk.id][tk.conn].st = "open"

\* client.listTools() settles: the list, or [] from the catch
ListTools(tk, ok) ==
  /\ tk.pc = "listTools"
  /\ ok => ClientUsable(tk)
  /\ Step(tk.id, [World(tk.id) EXCEPT !.m.tools = IF ok THEN UpTools ELSE {},
                                      !.spawn = [tk EXCEPT !.pc = "listResources"]], tk)
  /\ Frame

ListResources(tk, ok) ==
  /\ tk.pc = "listResources"
  /\ ok => ClientUsable(tk)
  /\ Step(tk.id, [World(tk.id) EXCEPT !.m.resources = IF ok THEN UpResources ELSE {},
                                      !.spawn = [tk EXCEPT !.pc = "listPrompts"]], tk)
  /\ Frame

\* client.listPrompts() settles; discoverCapabilities returns to its caller
ListPrompts(tk, ok) ==
  /\ tk.pc = "listPrompts"
  /\ ok => ClientUsable(tk)
  /\ LET w == [World(tk.id) EXCEPT !.m.prompts = IF ok THEN UpPrompts ELSE {}]
     IN Step(tk.id, IF tk.k = "refresh" THEN emitStatusEvent(w) ELSE connected(w), tk)
  /\ Frame

\* the awaits of closeConnection settle
CloseDone(tk, fire, jitter) ==
  /\ tk.pc = "closing"
  /\ LET w == closeConnectionEnd(World(tk.id), fire, jitter)
     IN Step(tk.id,
             IF tk.k = "oauth"
               THEN connectServer(setStatus(w, "disconnected", "none"), "connect")
               ELSE afterDisconnect(disconnected(w), tk.k, tk.en), tk)
  /\ Frame

\* ------------------------------------------------------------ environment

\* the upstream (or the child process) ends an established transport
TransportClosed(id, c, jitter) ==
  /\ id \in servers
  /\ conns[id][c].st = "open"
  /\ LET w == World(id)
     IN Step(id, onclose(kill(w, c), w.conns[c].en, jitter), Idle)
  /\ UNCHANGED <<lifecycle, shutdownRequested, calls>>

TransportClose(id, c, jitter) ==
  /\ TransportClosed(id, c, jitter)
  /\ UNCHANGED closes

\* a transport reports an I/O error
TransportError(id, c) ==
  /\ id \in servers
  /\ conns[id][c].st \in {"opening", "open"}
  /\ Step(id, onerror(World(id)), Idle)
  /\ Frame

\* a setTimeout callback of scheduleReconnect runs
TimerFire(id) ==
  /\ timers[id] > 0
  /\ LET w == [World(id) EXCEPT !.timers = @ - 1, !.m.reconnectTimer = FALSE]
     IN Step(id, IF w.shut \/ (w.present /\ ~w.m.config.enabled) THEN w
                 ELSE connectServer(w, "connect"), Idle)
  /\ Frame

\* ------------------------------------------------------------- mcp-proxy

\* POST /mcp up to `await entry.transport.handleRequest`: a request that finds no
\* entry gets a new server/transport pair, which is stored when the transport
\* reports a session id after server.connect
routePost(d, hasSessionId) ==
  IF d \notin sessions /\ hasSessionId THEN sessions \cup {d} ELSE sessions

\* the HTTP server listens once Gateway.initialize has returned
Listening == lifecycle \in {"running", "stopping"}

\* POST /mcp carrying a client's initialize request
SessionOpen(d, hasSessionId) ==
  /\ Listening
  /\ d \notin clients
  /\ clients' = clients \cup {d}
  /\ sessions' = routePost(d, hasSessionId)
  /\ dsReply' = [x \in DS |-> NoReply]
  /\ seenUpdated' = NoUpdate
  /\ lastRet' = "none"
  /\ lastDelay' = 0
  /\ savedTokens' = "none"
  /\ seenAdded' = NoAdded
  /\ UNCHANGED <<gwVars, dsFresh, dsGone, auxVars, calls, closes>>

\* transport.onclose / DELETE /mcp: the client's session ends
SessionClose(d) ==
  /\ d \in clients
  /\ clients' = clients \ {d}
  /\ sessions' = sessions \ {d}
  /\ dsReply' = [x \in DS |-> NoReply]
  /\ dsFresh' = [dsFresh EXCEPT ![d] = {}]
  /\ dsGone' = [dsGone EXCEPT ![d] = {}]
  /\ seenUpdated' = NoUpdate
  /\ lastRet' = "none"
  /\ lastDelay' = 0
  /\ savedTokens' = "none"
  /\ seenAdded' = NoAdded
  /\ UNCHANGED <<gwVars, auxVars, calls, closes>>

\* Gateway.getAllTools, by upstream: the sessions whose tools it returns
getAllTools == {u \in servers : managed[u].status = "connected" /\ managed[u].tools # {}}

\* POST /mcp carrying tools/list: the ListToolsRequestSchema handler's reply
ToolsList(d, hasSessionId) ==
  /\ Listening
  /\ d \in clients
  /\ sessions' = routePost(d, hasSessionId)
  /\ dsReply' = [x \in DS |-> IF x = d THEN [sent |-> TRUE, ups |-> getAllTools]
                                        ELSE NoReply]
  /\ seenUpdated' = NoUpdate
  /\ lastRet' = "none"
  /\ lastDelay' = 0
  /\ savedTokens' = "none"
  /\ seenAdded' = NoAdded
  /\ UNCHANGED <<gwVars, clients, dsFresh, dsGone, auxVars, calls, closes>>

\* ------------------------------------------------------------------- Next

Next ==
  \/ \E stored \in StoredConfigs : Initialize(stored)
  \/ InitializeDone
  \/ \E fire \in BOOLEAN, j \in Jitters : Shutdown(fire, j)
  \/ ShutdownDone
  \/ \E id \in Ids, config \in RegConfigs : RegisterServer(id, config)
  \/ \E id \in Ids, u \in Patches, fire \in BOOLEAN, j \in Jitters : UpdateServer(id, u, fire, j)
  \/ \E id \in Ids, fire \in BOOLEAN, j \in Jitters : RemoveServer(id, fire, j)
  \/ \E id \in Ids : ConnectServer(id)
  \/ \E id \in Ids, fire \in BOOLEAN, j \in Jitters : DisconnectServer(id, fire, j)
  \/ \E id \in Ids, fire \in BOOLEAN, j \in Jitters : ReconnectServer(id, fire, j)
  \/ \E id \in Ids : RefreshCapabilities(id)
  \/ \E id \in Ids, fire \in BOOLEAN, j \in Jitters : OnOAuthComplete(id, fire, j)
  \/ \E tk \in tasks : HandshakeOk(tk)
  \/ \E tk \in tasks, msg \in ErrMsgs, j \in Jitters : HandshakeFail(tk, msg, j)
  \/ \E tk \in tasks, ok \in BOOLEAN : ListTools(tk, ok)
  \/ \E tk \in tasks, ok \in BOOLEAN : ListResources(tk, ok)
  \/ \E tk \in tasks, ok \in BOOLEAN : ListPrompts(tk, ok)
  \/ \E tk \in tasks, fire \in BOOLEAN, j \in Jitters : CloseDone(tk, fire, j)
  \/ \E id \in Ids, c \in ConnIds, j \in Jitters : TransportClose(id, c, j)
  \/ \E id \in Ids, c \in ConnIds : TransportError(id, c)
  \/ \E id \in Ids : TimerFire(id)

Spec == Init /\ [][Next]_vars

\* ------------------------------------------- the gateway behind the mcp-proxy
\* One enabled stdio server from the store, the operations and events that make
\* it start or stop contributing tools, and the downstream clients of the proxy.

ProxyConfig ==
  [transport |-> "stdio", enabled |-> TRUE, target |-> "x0", auth |-> AuthNone,
   oauth |-> NoLegacy]

NextProxy ==
  \/ Initialize([id \in Ids |-> ProxyConfig])
  \/ InitializeDone
  \/ \E id \in Ids, fire \in BOOLEAN, j \in Jitters : RemoveServer(id, fire, j)
  \/ \E id \in Ids : ConnectServer(id)
  \/ \E id \in Ids, fire \in BOOLEAN, j \in Jitters : DisconnectServer(id, fire, j)
  \/ \E tk \in tasks : HandshakeOk(tk)
  \/ \E tk \in tasks, msg \in ErrMsgs, j \in Jitters : HandshakeFail(tk, msg, j)
  \/ \E tk \in tasks, ok \in BOOLEAN : ListTools(tk, ok)
  \/ \E tk \in tasks, ok \in BOOLEAN : ListResources(tk, ok)
  \/ \E tk \in tasks, ok \in BOOLEAN : ListPrompts(tk, ok)
  \/ \E tk \in tasks, fire \in BOOLEAN, j \in Jitters : CloseDone(tk, fire, j)
  \/ \E id \in Ids, c \in ConnIds, j \in Jitters : TransportClose(id, c, j)
  \/ \E id \in Ids, c \in ConnIds : TransportError(id, c)
  \/ \E id \in Ids : TimerFire(id)
  \/ \E d \in DS, h \in BOOLEAN : SessionOpen(d, h)
  \/ \E d \in DS : SessionClose(d)
  \/ \E d \in DS, h \in BOOLEAN : ToolsList(d, h)

SpecProxy == Init /\ [][NextProxy]_vars

\* ------------------------------------------------- the flaky remote upstream
\* One enabled remote server whose upstream accepts every connection, answers
\* initialize and then closes the transport; nobody calls the API.

FlakyConfig ==
  [transport |-> "streamable-http", enabled |-> TRUE, target |-> "x0", auth |-> AuthNone,
   oauth |-> NoLegacy]

\* the upstream closes an established transport, for the closes[id]+1-th time
FlakyClose(id, c, jitter) ==
  /\ closes[id] < MaxCloses
  /\ TransportClosed(id, c, jitter)
  /\ closes' = [closes EXCEPT ![id] = @ + 1]

NextFlaky ==
  \/ Initialize([id \in Ids |-> FlakyConfig])
  \/ InitializeDone
  \/ \E tk \in tasks : HandshakeOk(tk)
  \/ \E tk \in tasks, ok \in BOOLEAN : ListTools(tk, ok)
  \/ \E tk \in tasks, ok \in BOOLEAN : ListResources(tk, ok)
  \/ \E tk \in tasks, ok \in BOOLEAN : ListPrompts(tk, ok)
  \/ \E id \in Ids, c \in ConnIds, j \in Jitters : FlakyClose(id, c, j)
  \/ \E id \in Ids : TimerFire(id)

SpecFlaky == Init /\ [][NextFlaky]_vars

\* ------------------------------------------------- initialize and shutdown
\* One enabled stdio server from the store, initialize() and the shutdown
\* signal.  The event loop runs a continuation whose awaited promises have
\* settled (weak fairness of InitializeDone and ShutdownDone), and a request a
\* client has sent settles with the answer, with the transport's close or with
\* the request timeout (weak fairness of Settles).  Whether an upstream ever
\* completes a close is up to the upstream: CloseDone is not assumed to happen.

\* a pending client.connect or list request settles
Settles ==
  \E tk \in tasks :
     \/ HandshakeOk(tk)
     \/ \E msg \in ErrMsgs, j \in Jitters : HandshakeFail(tk, msg, j)
     \/ \E ok \in BOOLEAN : ListTools(tk, ok) \/ ListResources(tk, ok) \/ ListPrompts(tk, ok)

NextLifecycle ==
  \/ Initialize([id \in Ids |-> ProxyConfig])
  \/ InitializeDone
  \/ \E fire \in BOOLEAN, j \in Jitters : Shutdown(fire, j)
  \/ ShutdownDone
  \/ \E tk \in tasks : HandshakeOk(tk)
  \/ \E tk \in tasks, msg \in ErrMsgs, j \in Jitters : HandshakeFail(tk, msg, j)
  \/ \E tk \in tasks, ok \in BOOLEAN : ListTools(tk, ok)
  \/ \E tk \in tasks, ok \in BOOLEAN : ListResources(tk, ok)
  \/ \E tk \in tasks, ok \in BOOLEAN : ListPrompts(tk, ok)
  \/ \E tk \in tasks, fire \in BOOLEAN, j \in Jitters : CloseDone(tk, fire, j)
  \/ \E id \in Ids, c \in ConnIds, j \in Jitters : TransportClose(id, c, j)
  \/ \E id \in Ids, c \in ConnIds : TransportError(id, c)
  \/ \E id \in Ids : TimerFire(id)

SpecLifecycle ==
  /\ Init /\ [][NextLifecycle]_vars
  /\ WF_vars(InitializeDone) /\ WF_vars(ShutdownDone) /\ WF_vars(Settles)

\* ------------------------------------------------------- the OAuth callback
\* One enabled remote server whose effective auth mode is OAuth, configured
\* through `auth` or through the legacy `oauth` field, and the browser coming
\* back to GET /oauth/callback/<id> with a code.

NextOAuth ==
  \/ \E c \in OAuthConfigs : Initialize([id \in Ids |-> c])
  \/ InitializeDone
  \/ \E id \in Ids : OAuthCallback(id)
  \/ \E tk \in tasks, a \in BOOLEAN, fire \in BOOLEAN, j \in Jitters : ExchangeDone(tk, a, fire, j)
  \/ \E tk \in tasks : HandshakeOk(tk)
  \/ \E tk \in tasks, msg \in ErrMsgs, j \in Jitters : HandshakeFail(tk, msg, j)
  \/ \E tk \in tasks, ok \in BOOLEAN : ListTools(tk, ok)
  \/ \E tk \in tasks, ok \in BOOLEAN : ListResources(tk, ok)
  \/ \E tk \in tasks, ok \in BOOLEAN : ListPrompts(tk, ok)
  \/ \E tk \in tasks, fire \in BOOLEAN, j \in Jitters : CloseDone(tk, fire, j)
  \/ \E id \in Ids, c \in ConnIds, j \in Jitters : TransportClose(id, c, j)
  \/ \E id \in Ids, c \in ConnIds : TransportError(id, c)
  \/ \E id \in Ids : TimerFire(id)

SpecOAuth == Init /\ [][NextOAuth]_vars

\* --------------------------------------------------------- the name registry
\* The names of the registered servers (Store.data.servers, Gateway.servers),
\* the tools of their connected sessions, and the proxy's prefixed tool names.
\* A name or a tool name is a sequence of characters.

NameIds == {"n1", "n2"}

\* the names callers register (non-empty after trim)
ServerNames ==
  {<<"F", "o", "o", " ", "B", "a", "r">>,
   <<"F", "o", "o", "-", "B", "a", "r">>,
   <<"f", "o", "o", " ", "b", "a", "r">>,
   <<"g", "a", "t", "e", "w", "a", "y">>,
   <<"!", "!">>}

\* the tool names upstreams report
ToolNames == {<<"t">>, <<"s", "e", "a", "r", "c", "h", "_", "t", "o", "o", "l", "s">>}

PREFIX_SEP == <<"_", "_">>

GATEWAY_META_TOOLS ==
  {<<"g", "a", "t", "e", "w", "a", "y", "_", "_", "s", "e", "a", "r", "c", "h", "_", "t", "o", "o", "l", "s">>,
   <<"g", "a", "t", "e", "w", "a", "y", "_", "_", "l", "i", "s", "t", "_", "s", "e", "r", "v", "e", "r", "s">>,
   <<"g", "a", "t", "e", "w", "a", "y", "_", "_", "g", "e", "t", "_", "s", "e", "r", "v", "e", "r", "_", "t", "o", "o", "l", "s">>}

LowerCase ==
  [A |-> "a", B |-> "b", C |-> "c", D |-> "d", E |-> "e", F |-> "f", G |-> "g", H |->
   "h", I |-> "i", J |-> "j", K |-> "k", L |-> "l", M |-> "m", N |-> "n", O |-> "o", P
   |-> "p", Q |-> "q", R |-> "r", S |-> "s", T |-> "t", U |-> "u", V |-> "v", W |->
   "w", X |-> "x", Y |-> "y", Z |-> "z"]

AlphaNum ==
  {"a", "b", "c", "d", "e", "f", "g", "h", "i", "j", "k", "l", "m", "n", "o", "p", "q",
   "r", "s", "t", "u", "v", "w", "x", "y", "z", "0", "1", "2", "3", "4", "5", "6", "7",
   "8", "9"}

toLowerCase(s) ==
  [i \in 1..Len(s) |-> IF s[i] \in DOMAIN LowerCase THEN LowerCase[s[i]] ELSE s[i]]

RECURSIVE dropRun(_)
\* s without its leading run of non-alphanumeric characters
dropRun(s) ==
  IF s = <<>> \/ Head(s) \in AlphaNum THEN s ELSE dropRun(Tail(s))

RECURSIVE replaceRuns(_)
\* .replace(/[^a-z0-9]+/g, "_")
replaceRuns(s) ==
  IF s = <<>> THEN <<>>
  ELSE IF Head(s) \in AlphaNum THEN <<Head(s)>> \o replaceRuns(Tail(s))
  ELSE <<"_">> \o replaceRuns(dropRun(s))

RECURSIVE trimLeading(_)
trimLeading(s) == IF s # <<>> /\ Head(s) = "_" THEN trimLeading(Tail(s)) ELSE s

RECURSIVE trimTrailing(_)
trimTrailing(s) ==
  IF s # <<>> /\ s[Len(s)] = "_" THEN trimTrailing(SubSeq(s, 1, Len(s) - 1)) ELSE s

\* .replace(/^_+|_+$/g, "")
trimUnderscores(s) == trimTrailing(trimLeading(s))

normalizePrefix(serverName) == trimUnderscores(replaceRuns(toLowerCase(serverName)))

prefixName(serverName, originalName) ==
  normalizePrefix(serverName) \o PREFIX_SEP \o originalName

\* prefixedName.indexOf(PREFIX_SEP), 1-based; 0 when absent
indexOfSep(p) ==
  LET hits == {i \in 1..(Len(p) - 1) : p[i] = "_" /\ p[i + 1] = "_"}
  IN IF hits = {} THEN 0 ELSE CHOOSE i \in hits : \A j \in hits : i <= j

Undefined == [prefix |-> <<"?">>, originalName |-> <<>>]

parsePrefixedName(p) ==
  LET idx == indexOfSep(p)
  IN IF idx = 0 THEN Undefined
     ELSE [prefix |-> SubSeq(p, 1, idx - 1), originalName |-> SubSeq(p, idx + 2, Len(p))]

NotFound == [serverId |-> "-", originalName |-> <<>>]

RegIndex(reg) == 1..Len(reg)

\* aggregateTools over Gateway.getAllTools: the tools of the connected sessions,
\* each with its prefixed name, original name and server
aggregateTools(reg) ==
  UNION {{[name |-> prefixName(reg[i].name, t), serverId |-> reg[i].id,
           originalName |-> t, pos |-> i] : t \in reg[i].tools} : i \in RegIndex(reg)}

\* resolveToolCall: the first aggregated tool whose server's normalized prefix and
\* original name match the parsed name
resolveToolCall(reg, prefixedName) ==
  IF prefixedName \in GATEWAY_META_TOOLS THEN NotFound
  ELSE LET parsed == parsePrefixedName(prefixedName)
           matches == {t \in aggregateTools(reg) :
                          /\ normalizePrefix(reg[t.pos].name) = parsed.prefix
                          /\ t.originalName = parsed.originalName}
       IN IF parsed = Undefined \/ matches = {} THEN NotFound
          ELSE LET match == CHOOSE t \in matches : \A u \in matches : t.pos <= u.pos
               IN [serverId |-> match.serverId, originalName |-> match.originalName]

\* the ListToolsRequestSchema handler's reply: the meta-tools, then the upstream
\* tools under their prefixed names; each entry with where it comes from
listTools(reg) ==
  {[name |-> m, serverId |-> "gateway", originalName |-> m] : m \in GATEWAY_META_TOOLS}
  \cup
  {[name |-> t.name, serverId |-> t.serverId, originalName |-> t.originalName] :
     t \in aggregateTools(reg)}

\* the CallToolRequestSchema handler: where a call of `name` is dispatched
callTool(reg, name) ==
  IF name \in GATEWAY_META_TOOLS THEN [serverId |-> "gateway", originalName |-> name]
  ELSE resolveToolCall(reg, name)

\* Store.getServerByName: the entries with that name, compared in lower case
getServerByName(reg, name) ==
  {i \in RegIndex(reg) : toLowerCase(reg[i].name) = toLowerCase(name)}

NameFrame ==
  UNCHANGED <<gwVars, proxyVars, obsVars, storeVars, callVars, backoff, calls, closes>>

\* POST /api/servers: 409 when getServerByName finds the name, else
\* gateway.registerServer -> store.addServer
AddServer(id, name) ==
  /\ lifecycle = "running"
  /\ Len(registry) < Cardinality(NameIds)
  /\ \A i \in RegIndex(registry) : registry[i].id # id
  /\ IF getServerByName(registry, name) # {}
       THEN /\ reply' = [kind |-> "conflict", id |-> id]
            /\ UNCHANGED registry
       ELSE /\ registry' = Append(registry, [id |-> id, name |-> name, tools |-> {}])
            /\ reply' = [kind |-> "created", id |-> id]
  /\ NameFrame

\* PATCH /api/servers/:id with a name: 409 when another server has the name,
\* else gateway.updateServer -> store.updateServer
RenameServer(i, name) ==
  /\ lifecycle = "running"
  /\ i \in RegIndex(registry)
  /\ IF getServerByName(registry, name) \ {i} # {}
       THEN /\ reply' = [kind |-> "conflict", id |-> registry[i].id]
            /\ UNCHANGED registry
       ELSE /\ registry' = [registry EXCEPT ![i].name = name]
            /\ reply' = [kind |-> "updated", id |-> registry[i].id]
  /\ NameFrame

\* DELETE /api/servers/:id
DeleteServer(i) ==
  /\ lifecycle = "running"
  /\ i \in RegIndex(registry)
  /\ registry' = [j \in 1..(Len(registry) - 1) |->
                    IF j < i THEN registry[j] ELSE registry[j + 1]]
  /\ reply' = [kind |-> "removed", id |-> registry[i].id]
  /\ NameFrame

\* the session of a registered server becomes connected with the tools ts its
\* upstream reports (discoverCapabilities), or stops being connected (ts = {})
UpstreamTools(i, ts) ==
  /\ lifecycle = "running"
  /\ i \in RegIndex(registry)
  /\ registry[i].tools # ts
  /\ registry' = [registry EXCEPT ![i].tools = ts]
  /\ reply' = [kind |-> "none"]
  /\ NameFrame

\* a downstream client's tools/list
ListToolsRequest ==
  /\ lifecycle = "running"
  /\ reply' = [kind |-> "list", tools |-> listTools(registry)]
  /\ UNCHANGED registry
  /\ NameFrame

\* a downstream client's tools/call with the name of the listed upstream tool e
CallToolRequest(e) ==
  /\ lifecycle = "running"
  /\ e \in listTools(registry) /\ e.serverId # "gateway"
  /\ reply' = [kind |-> "call", tool |-> e, to |-> callTool(registry, e.name)]
  /\ UNCHANGED registry
  /\ NameFrame

NextNames ==
  \/ Initialize([id \in Ids |-> NoConfig])
  \/ InitializeDone
  \/ \E id \in NameIds, name \in ServerNames : AddServer(id, name)
  \/ \E i \in 1..Cardinality(NameIds), name \in ServerNames : RenameServer(i, name)
  \/ \E i \in 1..Cardinality(NameIds) : DeleteServer(i)
  \/ \E i \in 1..Cardinality(NameIds), ts \in SUBSET ToolNames : UpstreamTools(i, ts)
  \/ ListToolsRequest
  \/ \E e \in listTools(registry) : CallToolRequest(e)

SpecNames == Init /\ [][NextNames]_vars

\* ------------------------------------------------------------------ Store

MaxFaults == 1

StoreNames == {<<>>, <<"A">>, <<"a">>, <<"b">>}
Transports == {"stdio", "streamable-http"}

\* the configs POST /api/servers builds: a trimmed, non-empty name
StoreConfigs == [id : NameIds, name : StoreNames \ {<<>>}, transport : Transports]

\* the updates PATCH /api/servers/:id builds (name: body.name.trim()), and
\* updates that name an id and a transport
StorePatches ==
  {[name |-> n] : n \in StoreNames} \cup [id : NameIds, transport : Transports]

StoreFrame ==
  UNCHANGED <<gwVars, proxyVars, obsVars, nameVars, callVars, backoff, calls, closes>>

\* Store.load: the parsed file, or EMPTY_STORE when the file is missing or
\* JSON.parse throws
load(d) == IF d[filePath].kind = "json" THEN d[filePath].doc ELSE EMPTY_STORE

\* Store.scheduleSave: dirty, and the 200 ms timer set unless one is pending
scheduleSave ==
  /\ dirty' = TRUE
  /\ writeTimer' = TRUE

\* a Store method runs while no flush is in the middle of its system calls
StoreCall ==
  /\ flushing.pc = "idle"
  /\ flushed' = NotFlushed
  /\ UNCHANGED <<disk, flushing, faults>>

findIndex(id) == {i \in RegIndex(data) : data[i].id = id}

StoreAddServer(server) ==
  /\ StoreCall
  /\ IF \/ findIndex(server.id) # {}
        \/ \E i \in RegIndex(data) : toLowerCase(data[i].name) = toLowerCase(server.name)
       THEN UNCHANGED <<data, dirty, writeTimer>>
       ELSE /\ data' = Append(data, server)
            /\ scheduleSave
  /\ StoreFrame

\* {...existing, ...updates, id, transport: existing.transport}
merged(existing, updates) ==
  [f \in DOMAIN existing |->
     IF f \in {"id", "transport"} THEN existing[f]
     ELSE IF f \in DOMAIN updates THEN updates[f] ELSE existing[f]]

StoreUpdateServer(id, updates) ==
  /\ StoreCall
  /\ IF \/ findIndex(id) = {}
        \/ /\ "name" \in DOMAIN updates
           /\ updates.name # <<>>
           /\ \E i \in RegIndex(data) :
                 data[i].id # id /\ toLowerCase(data[i].name) = toLowerCase(updates.name)
       THEN UNCHANGED <<data, dirty, writeTimer>>
       ELSE /\ data' = [i \in RegIndex(data) |->
                          IF i \in findIndex(id) THEN merged(data[i], updates) ELSE data[i]]
            /\ scheduleSave
  /\ StoreFrame

StoreRemoveServer(id) ==
  /\ StoreCall
  /\ IF findIndex(id) = {}
       THEN UNCHANGED <<data, dirty, writeTimer>>
       ELSE /\ data' = SelectSeq(data, LAMBDA c : c.id # id)
            /\ scheduleSave
  /\ StoreFrame

\* Store.flush up to its first system call: returns at once when not dirty
flush(by) ==
  IF ~dirty
    THEN /\ flushed' = [by |-> by, error |-> FALSE, threw |-> FALSE]
         /\ UNCHANGED flushing
    ELSE /\ flushed' = NotFlushed
         /\ flushing' = [pc |-> "open", by |-> by]

\* the callback of the timer scheduleSave set
WriteTimerFires ==
  /\ flushing.pc = "idle"
  /\ writeTimer
  /\ writeTimer' = FALSE
  /\ flush("timer")
  /\ UNCHANGED <<data, dirty, disk, faults>>
  /\ StoreFrame

\* an explicit store.flush()
StoreFlush ==
  /\ flushing.pc = "idle"
  /\ flush("flush")
  /\ UNCHANGED <<data, dirty, writeTimer, disk, faults>>
  /\ StoreFrame

\* store.close(): clearTimeout, then flush
StoreClose ==
  /\ flushing.pc = "idle"
  /\ writeTimer' = FALSE
  /\ flush("close")
  /\ UNCHANGED <<data, dirty, disk, faults>>
  /\ StoreFrame

\* the catch block of flush: console.error, and flush returns
caught ==
  /\ faults < MaxFaults
  /\ faults' = faults + 1
  /\ flushed' = [by |-> flushing.by, error |-> TRUE, threw |-> FALSE]
  /\ flushing' = Flushless
  /\ UNCHANGED <<data, dirty, writeTimer>>

\* mkdirSync and writeFileSync opening the temp file, which truncates it
FlushOpen(ok) ==
  /\ flushing.pc = "open"
  /\ IF ok
       THEN /\ disk' = [disk EXCEPT ![tmpPath] = Truncated]
            /\ flushing' = [flushing EXCEPT !.pc = "write"]
            /\ flushed' = NotFlushed
            /\ UNCHANGED <<data, dirty, writeTimer, faults>>
       ELSE /\ caught
            /\ UNCHANGED disk
  /\ StoreFrame

\* writeFileSync writing JSON.stringify(this.data) and closing the temp file
FlushWrite(ok) ==
  /\ flushing.pc = "write"
  /\ IF ok
       THEN /\ disk' = [disk EXCEPT ![tmpPath] = stringify(data)]
            /\ flushing' = [flushing EXCEPT !.pc = "rename"]
            /\ flushed' = NotFlushed
            /\ UNCHANGED <<data, dirty, writeTimer, faults>>
       ELSE /\ caught
            /\ UNCHANGED disk
  /\ StoreFrame

\* renameSync(tmpPath, filePath), then dirty = false
FlushRename(ok) ==
  /\ flushing.pc = "rename"
  /\ IF ok
       THEN /\ disk' = [p \in Paths |->
                          IF p = filePath THEN disk[tmpPath]
                          ELSE IF p = tmpPath THEN NoFile ELSE disk[p]]
            /\ dirty' = FALSE
            /\ flushed' = [by |-> flushing.by, error |-> FALSE, threw |-> FALSE]
            /\ flushing' = Flushless
            /\ UNCHANGED <<data, writeTimer, faults>>
       ELSE /\ caught
            /\ UNCHANGED disk
  /\ StoreFrame

FlushStep == \E ok \in BOOLEAN : FlushOpen(ok) \/ FlushWrite(ok) \/ FlushRename(ok)

\* the process is killed at any instant and started again: new Store(filePath)
Restart ==
  /\ data' = load(disk)
  /\ dirty' = FALSE
  /\ writeTimer' = FALSE
  /\ flushing' = Flushless
  /\ flushed' = NotFlushed
  /\ UNCHANGED <<disk, faults>>
  /\ StoreFrame

\* the mutations of the persistence scenario: two servers come, are renamed and go
FlushConfigs ==
  {[id |-> "n1", name |-> <<"A">>, transport |-> "stdio"],
   [id |-> "n2", name |-> <<"b">>, transport |-> "streamable-http"]}

NextStore ==
  \/ \E server \in FlushConfigs : StoreAddServer(server)
  \/ \E id \in NameIds : StoreUpdateServer(id, [name |-> <<"a">>])
  \/ \E id \in NameIds : StoreRemoveServer(id)
  \/ WriteTimerFires
  \/ StoreFlush
  \/ StoreClose
  \/ \E ok \in BOOLEAN : FlushOpen(ok)
  \/ \E ok \in BOOLEAN : FlushWrite(ok)
  \/ \E ok \in BOOLEAN : FlushRename(ok)
  \/ Restart

SpecStore ==
  Init /\ [][NextStore]_vars /\ WF_vars(WriteTimerFires) /\ WF_vars(FlushStep)

\* the server list under every config and patch, on a disk without errors
NextStoreServers ==
  \/ \E server \in StoreConfigs : StoreAddServer(server)
  \/ \E id \in NameIds, updates \in StorePatches : StoreUpdateServer(id, updates)
  \/ \E id \in NameIds : StoreRemoveServer(id)
  \/ WriteTimerFires
  \/ FlushOpen(TRUE)
  \/ FlushWrite(TRUE)
  \/ FlushRename(TRUE)

SpecStoreServers == Init /\ [][NextStoreServers]_vars

\* ------------------------------------------------------------- request log

maxSize == 2
MaxLogIds == 4

RequestTypes == {"tool", "resource", "prompt"}
LogStatus == {"pending", "success", "error"}

\* an addEntry that never drops an entry
untrimmed(l) == l

\* RequestLogStore.addEntry: this.logs.slice(0, this.maxSize) when over the size
trim(l) == IF Len(l) > maxSize THEN SubSeq(l, 1, maxSize) ELSE l

addEntry(l, entry) == trim(<<entry>> \o l)

\* RequestLogStore.updateEntry, with the status the caller set on the entry
updateEntry(l, id, status) ==
  [i \in DOMAIN l |-> IF l[i].id = id THEN [l[i] EXCEPT !.status = status] ELSE l[i]]

\* the RequestLogStore as a value
RequestLog == [logs |-> logs, pending |-> pendingRequests, ids |-> logIds]

start(L, type) ==
  LET id == L.ids + 1
  IN [logs |-> addEntry(L.logs, [id |-> id, type |-> type, status |-> "pending"]),
      pending |-> L.pending \cup {id},
      ids |-> id]

complete(L, id, isError) ==
  IF id \notin L.pending THEN L
  ELSE [L EXCEPT !.logs = updateEntry(@, id, IF isError THEN "error" ELSE "success"),
                 !.pending = @ \ {id}]

\* a fail that leaves the entry as it is
unfailed(L, id) == L

fail(L, id) ==
  IF id \notin L.pending THEN L
  ELSE [L EXCEPT !.logs = updateEntry(@, id, "error"), !.pending = @ \ {id}]

add(L, type, status) ==
  [L EXCEPT !.logs = addEntry(@, [id |-> L.ids + 1, type |-> type, status |-> status]),
            !.ids = @ + 1]

clear(L) == [L EXCEPT !.logs = <<>>, !.pending = {}]

SetLog(L) ==
  /\ logs' = L.logs
  /\ pendingRequests' = L.pending
  /\ logIds' = L.ids

LogFrame ==
  UNCHANGED <<gwVars, proxyVars, obsVars, nameVars, storeVars, upcalls, answer, backoff,
              calls, closes>>

LogStart(type) ==
  /\ logIds < MaxLogIds
  /\ SetLog(start(RequestLog, type))
  /\ LogFrame

LogComplete(id, isError) ==
  /\ SetLog(complete(RequestLog, id, isError))
  /\ LogFrame

LogFail(id) ==
  /\ SetLog(fail(RequestLog, id))
  /\ LogFrame

LogAdd(type, status) ==
  /\ logIds < MaxLogIds
  /\ SetLog(add(RequestLog, type, status))
  /\ LogFrame

LogClear ==
  /\ SetLog(clear(RequestLog))
  /\ LogFrame

NextRequestLog ==
  \/ \E type \in RequestTypes : LogStart(type)
  \/ \E id \in 1..MaxLogIds, isError \in BOOLEAN : LogComplete(id, isError)
  \/ \E id \in 1..MaxLogIds : LogFail(id)
  \/ \E type \in RequestTypes, status \in LogStatus : LogAdd(type, status)
  \/ LogClear

SpecRequestLog == Init /\ [][NextRequestLog]_vars

\* ------------------------------------------- the proxy's upstream-bound calls

MaxUpcalls == 2

\* the names of tools/call and prompts/get requests, as parsePrefixedName splits
\* them: a gateway meta-tool, a tool or prompt of an upstream (known or not),
\* and a name without the separator
MetaNames == {[prefix |-> "gateway", name |-> "search_tools"]}
NoSeparator == [prefix |-> "-", name |-> "-"]
CallNames ==
  MetaNames \cup {NoSeparator}
    \cup [prefix : Ids, name : UpTools \cup UpPrompts \cup {"x9"}]
Uris == UpResources \cup {"r9"}

\* Gateway.getAllTools / getAllResources / getAllPrompts: connected sessions only
Listed(u, type) ==
  IF managed[u].status # "connected" THEN {}
  ELSE IF type = "tool" THEN managed[u].tools
  ELSE IF type = "resource" THEN managed[u].resources
  ELSE managed[u].prompts

\* allTools.find / allPrompts.find over the parsed name: the upstreams that match
matchName(type, name) ==
  {u \in servers : name.prefix = u /\ name.name \in Listed(u, type)}

\* allResources.find((r) => r.originalUri === uri)
matchUri(uri) == {u \in servers : uri \in Listed(u, "resource")}

\* the reply for a name or URI that matches nothing
notFound(type) == IF type = "tool" THEN "isError" ELSE "InvalidParams"

\* a catch block that raises a JSON-RPC error for every type
raised(type) == "InternalError"

\* the reply of the catch block around the upstream call
caughtReply(type) == IF type = "tool" THEN "isError" ELSE "InternalError"

\* Gateway.callTool / readResource / getPrompt up to the client call: throws
\* unless the session is connected and has a client
callable(u) == u \in servers /\ managed[u].status = "connected" /\ managed[u].client # 0

ObsReset ==
  /\ dsReply' = [x \in DS |-> NoReply]
  /\ seenUpdated' = NoUpdate
  /\ lastRet' = "none"
  /\ lastDelay' = 0
  /\ savedTokens' = "none"
  /\ seenAdded' = NoAdded

CallFrame ==
  UNCHANGED <<gwVars, clients, dsFresh, dsGone, nameVars, storeVars, backoff, calls, closes>>

\* requestLog.start, then the try block up to the await of the upstream call
forward(d, type, ups) ==
  LET u == CHOOSE x \in ups : TRUE
      L == start(RequestLog, type)
  IN IF callable(u)
       THEN /\ SetLog(L)
            /\ upcalls' = upcalls \cup {[d |-> d, type |-> type, logId |-> L.ids, id |-> u]}
            /\ answer' = NoAnswer
       ELSE /\ SetLog(fail(L, L.ids))
            /\ answer' = [d |-> d, type |-> type, kind |-> caughtReply(type),
                          cause |-> "throw", logId |-> L.ids]
            /\ UNCHANGED upcalls

\* the handler's reply without an upstream call
refuse(d, type, kind, cause) ==
  /\ answer' = [d |-> d, type |-> type, kind |-> kind, cause |-> cause, logId |-> 0]
  /\ UNCHANGED <<logVars, upcalls>>

Request(d, hasSessionId) ==
  /\ Listening
  /\ d \in clients
  /\ logIds < MaxLogIds
  /\ Cardinality(upcalls) < MaxUpcalls
  /\ sessions' = routePost(d, hasSessionId)
  /\ ObsReset
  /\ CallFrame

\* POST /mcp carrying tools/call: the CallToolRequestSchema handler
ToolsCall(d, hasSessionId, name) ==
  /\ Request(d, hasSessionId)
  /\ IF name \in MetaNames THEN refuse(d, "tool", "result", "meta")
     ELSE IF name = NoSeparator \/ matchName("tool", name) = {}
       THEN refuse(d, "tool", notFound("tool"), "unresolved")
     ELSE forward(d, "tool", matchName("tool", name))

\* POST /mcp carrying resources/read: the ReadResourceRequestSchema handler
ResourcesRead(d, hasSessionId, uri) ==
  /\ Request(d, hasSessionId)
  /\ IF matchUri(uri) = {} THEN refuse(d, "resource", notFound("resource"), "unresolved")
     ELSE forward(d, "resource", matchUri(uri))

\* POST /mcp carrying prompts/get: the GetPromptRequestSchema handler
PromptsGet(d, hasSessionId, name) ==
  /\ Request(d, hasSessionId)
  /\ IF name = NoSeparator \/ matchName("prompt", name) = {}
       THEN refuse(d, "prompt", notFound("prompt"), "unresolved")
     ELSE forward(d, "prompt", matchName("prompt", name))

Outcomes == {"result", "isError", "throws"}

\* the upstream call of o settles (a reply, or a rejection: upstream error,
\* timeout, connection closed) and the handler runs to its end
UpstreamSettles(o, outcome) ==
  /\ o \in upcalls
  /\ outcome = "isError" => o.type = "tool"
  /\ upcalls' = upcalls \ {o}
  /\ IF outcome = "throws"
       THEN /\ SetLog(fail(RequestLog, o.logId))
            /\ answer' = [d |-> o.d, type |-> o.type, kind |-> caughtReply(o.type),
                          cause |-> "throw", logId |-> o.logId]
       ELSE /\ SetLog(complete(RequestLog, o.logId, outcome = "isError"))
            /\ answer' = [d |-> o.d, type |-> o.type, kind |-> outcome,
                          cause |-> "reply", logId |-> o.logId]
  /\ ObsReset
  /\ UNCHANGED <<gwVars, proxyVars, nameVars, storeVars, backoff, calls, closes>>

NextCalls ==
  \/ Initialize([id \in Ids |-> ProxyConfig])
  \/ InitializeDone
  \/ \E tk \in tasks : HandshakeOk(tk)
  \/ \E tk \in tasks, ok \in BOOLEAN : ListTools(tk, ok)
  \/ \E tk \in tasks, ok \in BOOLEAN : ListResources(tk, ok)
  \/ \E tk \in tasks, ok \in BOOLEAN : ListPrompts(tk, ok)
  \/ \E id \in Ids, c \in ConnIds, j \in Jitters : TransportClose(id, c, j)
  \/ \E d \in DS, h \in BOOLEAN : SessionOpen(d, h)
  \/ \E d \in DS : SessionClose(d)
  \/ \E d \in DS, h \in BOOLEAN, name \in CallNames : ToolsCall(d, h, name)
  \/ \E d \in DS, h \in BOOLEAN, uri \in Uris : ResourcesRead(d, h, uri)
  \/ \E d \in DS, h \in BOOLEAN, name \in CallNames : PromptsGet(d, h, name)
  \/ \E o \in upcalls, outcome \in Outcomes : UpstreamSettles(o, outcome)

SpecCalls == Init /\ [][NextCalls]_vars

\* ------------------------------------------------------- the backoff delay
\* scheduleReconnect's delay as a function of managed.reconnectAttempts and of
\* the jitter Math.random() * 1000, in whole milliseconds.

MaxAttempts == 12
JitterSteps == 9
JitterSamples == {(111 * i) % 1000 : i \in 0..JitterSteps}

\* the delay computation of scheduleReconnect for one pair of inputs
ComputeDelay(attempts, jitter) ==
  /\ backoff' = [attempts |-> attempts, jitter |-> jitter,
                 delay |-> ReconnectDelay(attempts, jitter)]
  /\ UNCHANGED <<gwVars, proxyVars, obsVars, nameVars, storeVars, callVars, calls, closes>>

NextBackoff == \E a \in 0..MaxAttempts, j \in JitterSamples : ComputeDelay(a, j)

SpecBackoff == Init /\ [][NextBackoff]_vars

\* ------------------------------------------ reconnects and their cancelling
\* One enabled remote server from the store whose connects may fail, a manual
\* connectServer, and then the session being disabled or the gateway being shut
\* down, with reconnect timers pending or not.

Toggles == {u \in Patches : DOMAIN u = {"enabled"}}

NextReconnect ==
  \/ Initialize([id \in Ids |-> FlakyConfig])
  \/ InitializeDone
  \/ \E id \in Ids : ConnectServer(id)
  \/ \E id \in Ids, u \in Toggles, fire \in BOOLEAN, j \in Jitters :
        UpdateServerLater(id, u, fire, j)
  \/ \E fire \in BOOLEAN, j \in Jitters : ShutdownLater(fire, j)
  \/ ShutdownDone
  \/ \E tk \in tasks : HandshakeOk(tk)
  \/ \E tk \in tasks, msg \in ErrMsgs, j \in Jitters : HandshakeFail(tk, msg, j)
  \/ \E tk \in tasks, ok \in BOOLEAN : ListTools(tk, ok)
  \/ \E tk \in tasks, ok \in BOOLEAN : ListResources(tk, ok)
  \/ \E tk \in tasks, ok \in BOOLEAN : ListPrompts(tk, ok)
  \/ \E tk \in tasks, fire \in BOOLEAN, j \in Jitters : CloseDone(tk, fire, j)
  \/ \E id \in Ids, c \in ConnIds, j \in Jitters : TransportClose(id, c, j)
  \/ \E id \in Ids : TimerFire(id)

SpecReconnect == Init /\ [][NextReconnect]_vars

\* ------------------------------------------------- removal while in flight
\* One enabled remote server with OAuth from the store, the OAuth callback, and
\* removeServer called once and once more: while the first removal or the token
\* exchange of the callback is suspended, or after the first removal returned.

NextRemove ==
  \/ \E c \in OAuthConfigs : Initialize([id \in Ids |-> c])
  \/ InitializeDone
  \/ \E id \in Ids, fire \in BOOLEAN, j \in Jitters : RemoveServer(id, fire, j)
  \/ \E id \in Ids, fire \in BOOLEAN, j \in Jitters : RemoveServerAgain(id, fire, j)
  \/ \E id \in Ids : OAuthCallback(id)
  \/ \E tk \in tasks, a \in BOOLEAN, fire \in BOOLEAN, j \in Jitters : ExchangeDone(tk, a, fire, j)
  \/ \E tk \in tasks : HandshakeOk(tk)
  \/ \E tk \in tasks, msg \in ErrMsgs, j \in Jitters : HandshakeFail(tk, msg, j)
  \/ \E tk \in tasks, ok \in BOOLEAN : ListTools(tk, ok)
  \/ \E tk \in tasks, ok \in BOOLEAN : ListResources(tk, ok)
  \/ \E tk \in tasks, ok \in BOOLEAN : ListPrompts(tk, ok)
  \/ \E tk \in tasks, fire \in BOOLEAN, j \in Jitters : CloseDone(tk, fire, j)
  \/ \E id \in Ids, c \in ConnIds, j \in Jitters : TransportClose(id, c, j)
  \/ \E id \in Ids, c \in ConnIds : TransportError(id, c)
  \/ \E id \in Ids : TimerFire(id)

SpecRemove == Init /\ [][NextRemove]_vars

\* ----------------------------------------------------------------- claims

\* C1: in every reachable state a session whose status is not connected has
\* empty tools, resources and prompts lists
C1_ListsEmptyUnlessConnected ==
  \A id \in servers :
     managed[id].status # "connected" =>
        managed[id].tools = {} /\ managed[id].resources = {} /\ managed[id].prompts = {}

\* the configuration mutations of session id that are suspended at an await
MutationsInProgress(id) ==
  {o \in tasks : o.id = id /\
      o.k \in {"init", "connect", "disconnect", "reconnect", "update", "remove"}}

\* the step is a configuration mutation of session id, or the connect of a
\* reconnect timer, and it changes the session
MutationTakesEffect(id) ==
  /\ \/ \E config \in RegConfigs : RegisterServer(id, config)
     \/ \E u \in Patches, fire \in BOOLEAN, j \in Jitters : UpdateServer(id, u, fire, j)
     \/ \E fire \in BOOLEAN, j \in Jitters : RemoveServer(id, fire, j)
     \/ ConnectServer(id)
     \/ \E fire \in BOOLEAN, j \in Jitters : DisconnectServer(id, fire, j)
     \/ \E fire \in BOOLEAN, j \in Jitters : ReconnectServer(id, fire, j)
     \/ TimerFire(id) /\ managed'[id].status = "connecting"
  /\ \/ managed'[id].status # managed[id].status
     \/ managed'[id].config # managed[id].config
     \/ managed'[id].client # managed[id].client
     \/ conns'[id] # conns[id]

\* C2: mutations of one server id are serialised: none starts taking effect on
\* the id while another one on the same id is suspended at an await
C2_MutationsSerialised ==
  [][\A id \in Ids : MutationTakesEffect(id) => MutationsInProgress(id) = {}]_vars

\* the step in which a disconnectServer(id) call made for its own sake returns
DisconnectCompletes(id) ==
  \/ /\ managed[id].client = 0
     /\ \E fire \in BOOLEAN, j \in Jitters : DisconnectServer(id, fire, j)
  \/ \E tk \in tasks :
        /\ tk.id = id /\ tk.pc = "closing" /\ tk.k = "disconnect"
        /\ \E fire \in BOOLEAN, j \in Jitters : CloseDone(tk, fire, j)

\* C3: when disconnectServer(id) has completed, the session is disconnected and
\* no reconnect timer is pending for it
C3_DisconnectCancelsReconnect ==
  [][\A id \in Ids :
        DisconnectCompletes(id) =>
           managed'[id].status = "disconnected" /\ timers'[id] = 0]_vars

\* the transport managed.client points at reports an error or closes
TransportLost(id) ==
  \E c \in ConnIds :
     /\ c = managed[id].client
     /\ TransportError(id, c) \/ \E j \in Jitters : TransportClose(id, c, j)

\* C4: when an enabled, connected session suffers a transport error or loses its
\* transport and no shutdown was requested, it becomes disconnected and a
\* reconnect timer is scheduled
C4_TransportLossSchedulesReconnect ==
  [][\A id \in Ids :
        (/\ id \in servers
         /\ managed[id].status = "connected"
         /\ managed[id].config.enabled
         /\ ~shutdownRequested
         /\ TransportLost(id))
        => managed'[id].status = "disconnected" /\ timers'[id] = timers[id] + 1]_vars

\* C5: a session that gave up reconnecting (status error with the terminal
\* message) has no reconnect timer pending
C5_GivenUpHasNoTimer ==
  \A id \in servers :
     managed[id].status = "error" /\ managed[id].error = "maxed" => timers[id] = 0

\* C6: against the flaky upstream the delay scheduled at the k-th close is
\* min(2000 * 2^(k-1) + jitter, 30000): about 2, 4, 8, 16, 30 s
C6_FlakyDelaysDouble ==
  \A id \in Ids :
     lastDelay # 0 =>
        closes[id] > 0 /\ \E j \in Jitters : lastDelay = ReconnectDelay(closes[id] - 1, j)

\* C7: a connect attempt that fails with a 401/Unauthorized error leaves the
\* session in awaiting_oauth, schedules no reconnect timer, does not increment
\* reconnectAttempts, and connectServer returns without raising
C7_UnauthorizedIsNoReconnectTrigger ==
  [][\A tk \in tasks, msg \in {"Unauthorized", "HTTP 401"} :
        (\E j \in Jitters : HandshakeFail(tk, msg, j)) =>
           /\ managed'[tk.id].status = "awaiting_oauth"
           /\ timers'[tk.id] = timers[tk.id]
           /\ managed'[tk.id].reconnectTimer = managed[tk.id].reconnectTimer
           /\ managed'[tk.id].reconnectAttempts = managed[tk.id].reconnectAttempts
           /\ lastRet' = "ok"]_vars

\* a connect of a stdio session and of a remote session has just ended in
\* awaiting_oauth, after an earlier failure had scheduled a reconnect
C7_Witness ==
  \E id \in servers :
     /\ managed[id].status = "awaiting_oauth"
     /\ lastRet = "ok"
     /\ managed[id].reconnectAttempts > 0

\* C8: an observer of server:updated that finds a provider registered for the
\* server finds the one built from the updated config, and finds none when the
\* updated auth mode is not OAuth
C8_UpdatedSeesNewProvider ==
  seenUpdated.id # "-" /\ seenUpdated.prov # NoProvider =>
     requiresOAuthProvider(seenUpdated.auth) /\ seenUpdated.prov = seenUpdated.auth

\* C9: a tools/list reply to an open downstream session (here: one that has an
\* entry in the proxy's session table) omits no upstream that stopped
\* contributing tools without a list_changed sent to that session since
C9_ListChangedBeforeOmission ==
  [][\A d \in DS :
        (d \in sessions /\ \E h \in BOOLEAN : ToolsList(d, h))
        => dsGone[d] \subseteq dsReply'[d].ups]_vars

\* C10: a tools/list reply to a downstream session includes no upstream that
\* became connected while the session was open without a list_changed sent to
\* it since
C10_ListChangedBeforeInclusion ==
  \A d \in DS : dsReply[d].sent => dsReply[d].ups \cap dsFresh[d] = {}

\* C11: a downstream client whose initialize request was handled, and whose
\* transport has not closed since, has an entry in the proxy's session table
C11_InitializedClientHasEntry ==
  \A d \in clients : d \in sessions

\* a remote session whose effective auth mode is OAuth waits for the user
AwaitingOAuth(id) ==
  /\ id \in servers
  /\ managed[id].config.transport # "stdio"
  /\ requiresOAuthProvider(getEffectiveAuthConfig(managed[id].config))
  /\ managed[id].status = "awaiting_oauth"

\* C12: for a remote session in awaiting_oauth whose effective auth mode is
\* OAuth, whichever field configured it, a GET /oauth/callback/<id> with a code
\* starts the token exchange, whose success persists the tokens and makes
\* onOAuthComplete start a fresh connect
C12_CallbackCompletesOAuth ==
  [][\A id \in Ids :
        AwaitingOAuth(id) /\ OAuthCallback(id) =>
           \E o \in tasks' : o.id = id /\ o.pc = "exchange"]_vars

\* C13: whenever saveTokens returns in a flow that completes through
\* handleCallback, the Store no longer holds the PKCE code verifier
C13_VerifierClearedBeforeSaveTokensReturns ==
  savedTokens # "stored"

\* C14: every registered server has a non-empty normalized prefix that differs
\* from the normalized prefix of every other registered server
C14_NormalizedPrefixesUnique ==
  \A i \in RegIndex(registry) :
     /\ normalizePrefix(registry[i].name) # <<>>
     /\ \A j \in RegIndex(registry) :
           normalizePrefix(registry[j].name) = normalizePrefix(registry[i].name) => j = i

\* C15: the names in one tools/list reply are pairwise distinct, and a
\* tools/call with the prefixed name of a listed upstream tool is dispatched to
\* the server that reported the tool, under the tool's original name
C15_PrefixedNamesCollisionFree ==
  /\ reply.kind = "list" =>
        \A e1 \in reply.tools, e2 \in reply.tools : e1.name = e2.name => e1 = e2
  /\ reply.kind = "call" =>
        reply.to = [serverId |-> reply.tool.serverId,
                    originalName |-> reply.tool.originalName]

\* the step in which a removeServer(id) call returns
RemoveCompletes(id) ==
  /\ id \in servers /\ id \notin servers'
  /\ lifecycle' # "stopped"

\* C16: when removeServer(id) has completed, no client or transport of the
\* session is left open, no reconnect timer of it is pending, and the id is
\* absent from the session table, the OAuthProvider table and the Store
C16_RemoveLeavesNothingBehind ==
  [][\A id \in Ids :
        RemoveCompletes(id) =>
           /\ \A c \in ConnIds : conns'[id][c].st \notin {"opening", "open"}
           /\ timers'[id] = 0
           /\ providers'[id] = NoProvider
           /\ oauthState'[id] = NoOAuthState]_vars

\* C17: when shutdown() has completed, no client or transport of any session is
\* left open, no reconnect timer is pending and the session table is empty
C17_ShutdownLeavesNothingBehind ==
  lifecycle = "stopped" =>
     /\ servers = {}
     /\ \A id \in Ids :
           /\ \A c \in ConnIds : conns[id][c].st \notin {"opening", "open"}
           /\ timers[id] = 0

\* C18: a shutdown() that has started completes, also when the close of an
\* upstream's client or transport never completes
C18_ShutdownTerminates ==
  lifecycle = "stopping" ~> lifecycle = "stopped"

\* the step starts a reconnect of session id: a disconnect that a connect will
\* follow, or the connect itself
ReconnectStarted(id) ==
  \E o \in tasks' \ tasks :
     /\ o.id = id
     /\ \/ o.pc = "closing" /\ o.k = "update" /\ o.en
        \/ o.pc = "handshake"

\* C19: an updateServer that leaves an enabled server enabled reconnects the
\* session if and only if a connection setting changed, whatever the session's
\* status (checked for sessions with no reconnect timer pending, whose next
\* connect can only come from the update)
C19_UpdateReconnectsIffSettingsChanged ==
  [][\A id \in Ids, u \in Patches :
        (/\ id \in servers
         /\ managed[id].config.enabled
         /\ applyUpdates(managed[id].config, u).enabled
         /\ timers[id] = 0
         /\ \E fire \in BOOLEAN, j \in Jitters : UpdateServer(id, u, fire, j))
        => (connectionSettingsChanged(managed[id].config,
                                      applyUpdates(managed[id].config, u))
              <=> ReconnectStarted(id))]_vars

\* C20: once initialize() has started the connects of the enabled servers it
\* can return, whether or not they have finished: no pending connect keeps it
\* from returning
C20_InitializeReturnsWithoutWaiting ==
  lifecycle = "initializing" => ENABLED InitializeDone

\* C21: at every instant, a crash in the middle of a flush included, the
\* canonical Store file is absent or a complete JSON document; a partly
\* written document is never at the canonical path
C21_CanonicalFileNeverPartial == disk[filePath].kind \in {"absent", "json"}

\* a flush was cut short after it had truncated the temp file, over an
\* earlier complete canonical file
C21_Witness ==
  /\ flushing.pc = "idle"
  /\ disk[tmpPath].kind = "partial"
  /\ disk[filePath].kind = "json"

\* the canonical file is the serialisation of the in-memory state (a Store
\* that holds nothing has no file yet)
Persistent ==
  \/ disk[filePath] = stringify(data)
  \/ disk[filePath] = NoFile /\ data = EMPTY_STORE

\* C22: when an explicit flush() or close() returns, the canonical file is the
\* serialisation of the in-memory state, and after close() no write timer is
\* pending
C22_FlushReturnsPersistent ==
  flushed.by \in {"flush", "close"} =>
     Persistent /\ (flushed.by = "close" => ~writeTimer)

\* C23: a persistence error during flush()/close() is surfaced to the caller
\* as a failure
C23_PersistenceErrorSurfaced ==
  (flushed.by \in {"flush", "close"} /\ flushed.error) => flushed.threw

\* C24: whenever the store is dirty, a flush that persists the state
\* eventually happens, given that disk writes eventually succeed
C24_DirtyEventuallyFlushed == dirty ~> ~dirty

\* C25: no two stored servers share an id or a case-insensitively equal name
C25_StoredServersUnique ==
  \A i, j \in RegIndex(data) :
     (data[i].id = data[j].id \/ toLowerCase(data[i].name) = toLowerCase(data[j].name))
        => i = j

\* C26: when a downstream session is closed, the upstream calls it still has
\* outstanding are cancelled
C26_SessionCloseCancelsUpstreamCalls ==
  [][\A d \in DS : SessionClose(d) => \A o \in upcalls' : o.d # d]_vars

\* every pending log entry belongs to one upstream call that has not settled
NoStalePending ==
  /\ \A id \in pendingRequests : \E o \in upcalls : o.logId = id
  /\ \A i \in DOMAIN logs :
        logs[i].status = "pending" => \E o \in upcalls : o.logId = logs[i].id
  /\ \A o1, o2 \in upcalls : o1.logId = o2.logId => o1 = o2

\* a step opens an entry only for a call it forwards, opens it pending at the
\* head of the log, and closes the entry of every call that settles
OpensAndCloses ==
  /\ \A o \in upcalls' \ upcalls :
        /\ logIds' = logIds + 1
        /\ o.logId = logIds'
        /\ Head(logs') = [id |-> o.logId, type |-> o.type, status |-> "pending"]
  /\ logIds' # logIds =>
        /\ logIds' = logIds + 1
        /\ \/ \E o \in upcalls' \ upcalls : o.logId = logIds'
           \/ answer'.cause = "throw" /\ answer'.logId = logIds'
  /\ \A o \in upcalls \ upcalls' :
        /\ o.logId \notin pendingRequests'
        /\ \A i \in DOMAIN logs' : logs'[i].id = o.logId => logs'[i].status # "pending"

\* C27: every forwarded tools/call, resources/read or prompts/get opens exactly
\* one pending RequestLog entry before the upstream call, that entry is
\* completed or failed when the call settles and never stays pending after
\* it; meta-tool calls and unresolved names create no entry
C27_ForwardedCallsLogged == []NoStalePending /\ [][OpensAndCloses]_vars

\* an upstream call has settled and its entry in the log shows the outcome
C27_Witness ==
  /\ answer.cause \in {"reply", "throw"}
  /\ \E i \in DOMAIN logs : logs[i].id = answer.logId /\ logs[i].status # "pending"

\* the log holds at most maxSize entries, newest first
BoundedNewestFirst ==
  /\ Len(logs) <= maxSize
  /\ \A i, j \in DOMAIN logs : i < j => logs[i].id > logs[j].id

\* a new entry goes to the head, and evicts exactly the oldest one when the
\* log is full
EvictsOldest ==
  logIds' # logIds =>
     /\ Head(logs').id = logIds'
     /\ Tail(logs') = IF Len(logs) = maxSize THEN SubSeq(logs, 1, maxSize - 1) ELSE logs

\* C28: after any sequence of start, complete, fail, add and clear the
\* RequestLog holds at most its capacity, newest first, and a new entry on a
\* full buffer evicts exactly the oldest one
C28_RingBufferBounded == []BoundedNewestFirst /\ [][EvictsOldest]_vars

\* the buffer is full and an entry was evicted while it was still pending
C28_Witness ==
  /\ Len(logs) = maxSize
  /\ \E id \in pendingRequests : \A i \in DOMAIN logs : logs[i].id # id

\* C29: tools/call answers an unresolvable name and an upstream failure with an
\* isError result, never a JSON-RPC error; resources/read and prompts/get raise
\* InvalidParams for an unknown URI or name and InternalError for an upstream
\* failure
C29_FailuresByRequestType ==
  /\ answer.type = "tool" =>
        /\ answer.kind \in {"result", "isError"}
        /\ answer.cause \in {"unresolved", "throw"} => answer.kind = "isError"
  /\ answer.type \in {"resource", "prompt"} =>
        /\ answer.cause = "unresolved" => answer.kind = "InvalidParams"
        /\ answer.cause = "throw" => answer.kind = "InternalError"

\* a forwarded tools/call whose upstream call failed
C29_Witness ==
  /\ answer.type = "tool"
  /\ answer.cause = "throw"
  /\ answer.logId # 0

\* connectServer on a connecting or connected session returns the session as
\* it found it: same fields, connections, timers and provider, no event, no
\* operation started
ConnectIsNoOp ==
  \A id \in servers :
     managed[id].status \in {"connecting", "connected"} =>
        connectServer(World(id), "connect") = [World(id) EXCEPT !.ret = "ok"]

ConnectChangesNothing ==
  \A id \in Ids :
     (id \in servers /\ managed[id].status \in {"connecting", "connected"} /\ ConnectServer(id))
        => /\ UNCHANGED <<servers, managed, conns, timers, providers, tasks, oauthState>>
           /\ lastRet' = "ok"

\* C30: connectServer(id) while the status is connecting or connected is a
\* no-op: it returns without changing status, client, transport, lists,
\* reconnect counter or timer, and without emitting an event
C30_ConnectWhileConnectingIsNoOp == []ConnectIsNoOp /\ [][ConnectChangesNothing]_vars

\* a connectServer call has returned at once on a session that is connecting,
\* with a connect request made
C30_Witness ==
  /\ calls = 1
  /\ lastRet = "ok"
  /\ \E id \in servers : managed[id].status = "connecting" /\ timers[id] = 0

\* C31: for every value of reconnectAttempts and every jitter below one second
\* the delay scheduleReconnect computes is min(30 s, 2 s * 2^attempts + jitter),
\* and so never more than 30 s
C31_DelayIsCappedBackoff ==
  backoff # NoBackoff =>
    LET raw == 2000 * (2 ^ backoff.attempts) + backoff.jitter
    IN /\ backoff.delay = (IF raw < 30000 THEN raw ELSE 30000)
       /\ backoff.delay <= 30000

\* a computation the cap applies to
C31_Witness == backoff.attempts >= 4 /\ backoff.delay = 30000

\* C32: a registerServer whose config the Store rejects changes nothing: no
\* session, no server:added event, no connection.  Otherwise the Store holds
\* the config and the session exists when server:added is emitted, no connect
\* attempt has been made at that point, and a connect attempt follows exactly
\* when the config is enabled
C32_RegisterPersistsThenAnnouncesThenConnects ==
  [][\A id \in Ids, config \in RegConfigs :
       RegisterServer(id, config) =>
         IF storeServers[id] # NoConfig
           THEN /\ <<servers, managed, conns, timers, providers, tasks>>'
                     = <<servers, managed, conns, timers, providers, tasks>>
                /\ storeServers' = storeServers
                /\ seenAdded' = NoAdded
           ELSE /\ storeServers'[id] = config
                /\ id \in servers'
                /\ managed'[id].config = config
                /\ seenAdded' = [id |-> id, stored |-> TRUE, status |-> "disconnected",
                                 client |-> 0]
                /\ config.enabled <=>
                     \E o \in tasks' \ tasks : o.id = id /\ o.pc = "handshake"
                /\ ~config.enabled =>
                     managed'[id].status = "disconnected" /\ conns' = conns]_vars

\* an enabled server was registered: announced, and now connecting
C32_Witness ==
  /\ seenAdded.id \in servers
  /\ managed[seenAdded.id].status = "connecting"
  /\ \E o \in tasks : o.id = seenAdded.id /\ o.pc = "handshake"

\* C33: a reconnect timer that fires for a disabled session or after shutdown
\* was requested starts no connect attempt, and a reconnect timer is set only
\* for an enabled session of a gateway that is not shutting down
C33_NoReconnectWhenDisabledOrShutDown ==
  [][\A id \in Ids :
       /\ TimerFire(id)
             /\ (shutdownRequested \/ (id \in servers /\ ~managed[id].config.enabled))
           => /\ tasks' = tasks
              /\ conns' = conns
              /\ managed'[id].status = managed[id].status
       /\ timers'[id] > timers[id]
           => /\ id \in servers'
              /\ managed'[id].config.enabled
              /\ ~shutdownRequested']_vars

\* a reconnect is pending for a session that is disabled, or after shutdown()
C33_Witness ==
  \E id \in Ids :
     /\ timers[id] > 0
     /\ shutdownRequested \/ (id \in servers /\ ~managed[id].config.enabled)

\* C34: every session has at most one reconnect timer pending, and the pending
\* one is the one managed.reconnectTimer refers to
C34_OneReconnectTimer ==
  \A id \in Ids :
     /\ timers[id] <= 1
     /\ timers[id] = 1 => id \in servers /\ managed[id].reconnectTimer

\* C35: a session whose status is connected has a client and a transport, and
\* they are a connection whose handshake completed (it may have ended since)
C35_ConnectedHasLiveClient ==
  \A id \in servers :
     managed[id].status = "connected" =>
       /\ managed[id].client # 0
       /\ conns[id][managed[id].client].st \in {"open", "dead"}

\* C36: every id the Store holds OAuth state for is the id of a server the
\* Store holds
C36_OAuthStateOnlyForStoredServers ==
  \A id \in Ids : oauthState[id] # NoOAuthState => storeServers[id] # NoConfig

\* C37: while the gateway is running (initialize() has returned, shutdown()
\* has not started) the ids of Gateway.servers are the ids the Store holds and
\* every session's config is the Store's config for its id
C37_SessionsMirrorStore ==
  lifecycle = "running" =>
    \A id \in Ids :
       /\ id \in servers <=> storeServers[id] # NoConfig
       /\ id \in servers => managed[id].config = storeServers[id]

\* an updateServer has returned and the Store holds the patched config
C37_Witness ==
  /\ lifecycle = "running" /\ tasks = {}
  /\ seenUpdated.id \in servers
  /\ ~storeServers[seenUpdated.id].enabled

\* the ids of the buffer entries that are pending
PendingInBuffer == {logs[i].id : i \in {n \in DOMAIN logs : logs[n].status = "pending"}}

\* C38: every id of the pending map is the id of a pending entry of the
\* buffer, and complete() and fail() on an id that has no pending entry in the
\* buffer change nothing
C38_PendingIsBufferedPending ==
  /\ [](pendingRequests \subseteq PendingInBuffer)
  /\ [][\A id \in 1..MaxLogIds :
          /\ id \notin PendingInBuffer
          /\ LogFail(id) \/ \E isError \in BOOLEAN : LogComplete(id, isError)
          => UNCHANGED <<logs, pendingRequests>>]_vars

\* C39: server:removed is emitted at most once for an id, however the
\* removeServer calls for it overlap
C39_RemovedEmittedOnce == \A id \in Ids : removedEvents[id] <= 1

\* C40: when handleCallback has returned successfully no code verifier is left:
\* the Store holds none for the server and the provider's codeVerifier(), which
\* is the in-memory one or else the stored one, is empty
C40_VerifierClearedEverywhere ==
  [][\A tk \in tasks :
       (\E fire \in BOOLEAN, j \in Jitters : ExchangeDone(tk, TRUE, fire, j))
         => ~oauthState'[tk.id].codeVerifier /\ ~memVerifier'[tk.id]]_vars

====
